---- MODULE Spec2Model ----
(***************************************************************************)
(* Model of the drug search pipeline of                                    *)
(* packages/functions/src/search_handler.py: request validation, query     *)
(* interpretation, candidate retrieval (single-concept hybrid search and   *)
(* multi-concept per-term vector search), class expansion, post-filters,   *)
(* family grouping and ranking.                                            *)
(*                                                                         *)
(* Text is modelled as a sequence of one-character strings, so that the    *)
(* regular expressions and substring tests of the source are computed      *)
(* character by character.                                                 *)
(***************************************************************************)
EXTENDS Integers, Sequences, FiniteSets, TLC

VARIABLES
    pc,               \* position of the request in lambda_handler
    request,          \* parsed request body: query, max_results
    interp,           \* interpretation: terms, merged filters, drug_terms
    term_i,           \* index of the multi-concept per-term loop
    strength_values,  \* (number, unit) pairs of redis_hybrid_search
    classes_to_expand,\* drug classes and therapeutic classes of the anchors
    drugs,            \* working candidate list
    groups,           \* output of group_search_results
    prev_drugs,       \* the candidate list handed to the stage that ran last
    calls,            \* external calls made so far, in order
    response          \* API response, None until the handler returns

vars == <<pc, request, interp, term_i, strength_values, classes_to_expand, drugs,
          prev_drugs, groups, calls, response>>

----------------------------------------------------------------------------
(* Bounds of the model *)

MaxNameLen == 4
MaxDrugs == 3
MaxVariants == 7

----------------------------------------------------------------------------
(* Text *)

UC == <<"A","B","C","D","E","F","G","H","I","J","K","L","M",
        "N","O","P","Q","R","S","T","U","V","W","X","Y","Z">>
LC == <<"a","b","c","d","e","f","g","h","i","j","k","l","m",
        "n","o","p","q","r","s","t","u","v","w","x","y","z">>

IsDigit(c) == c \in {"0","1","2","3","4","5","6","7","8","9"}
IsSpace(c) == c \in {" ", "\t"}
UpperLetters == {UC[i] : i \in 1..26}
LowerLetters == {LC[i] : i \in 1..26}
IsUpperLetter(c) == c \in UpperLetters
IsLowerLetter(c) == c \in LowerLetters

ToUpper == [c \in LowerLetters |-> UC[CHOOSE i \in 1..26 : LC[i] = c]]
ToLower == [c \in UpperLetters |-> LC[CHOOSE i \in 1..26 : UC[i] = c]]
UpperChar(c) == IF IsLowerLetter(c) THEN ToUpper[c] ELSE c
LowerChar(c) == IF IsUpperLetter(c) THEN ToLower[c] ELSE c

\* str.upper() and str.lower()
Upper(s) == [i \in 1..Len(s) |-> UpperChar(s[i])]
Lower(s) == [i \in 1..Len(s) |-> LowerChar(s[i])]

\* the literal p occurs in s starting at index i
LitAt(s, i, p) ==
    /\ i >= 1
    /\ i + Len(p) - 1 <= Len(s)
    /\ \A k \in 1..Len(p) : s[i + k - 1] = p[k]

\* the literal p occurs in s at i, compared by re.IGNORECASE
LitAtIgnoreCase(s, i, p) == LitAt(Upper(s), i, Upper(p))

\* Python's "p in s"
Contains(s, p) == \E i \in 1..(Len(s) + 1) : LitAt(s, i, p)

\* str.strip()
RECURSIVE LStrip(_)
LStrip(s) == IF s # <<>> /\ IsSpace(Head(s)) THEN LStrip(Tail(s)) ELSE s
RECURSIVE RStrip(_)
RStrip(s) ==
    IF s # <<>> /\ IsSpace(s[Len(s)]) THEN RStrip(SubSeq(s, 1, Len(s) - 1)) ELSE s
Strip(s) == RStrip(LStrip(s))

\* " ".join(parts)
RECURSIVE JoinSpace(_)
JoinSpace(parts) ==
    IF parts = <<>> THEN <<>>
    ELSE IF Len(parts) = 1 THEN parts[1]
    ELSE parts[1] \o <<" ">> \o JoinSpace(Tail(parts))

----------------------------------------------------------------------------
(* Candidates *)

\* similarity_score_pct of a candidate that carries no score
NoScore == -1

\* unit of a strength value that was given without a unit (Python None)
NoUnit == <<>>

\* the fields FT.SEARCH returns for one record
StoreDoc(ndc, drug_name, brand_name, generic_name, drug_class, therapeutic_class, is_generic) ==
    [ndc |-> ndc, drug_name |-> drug_name, brand_name |-> brand_name,
     generic_name |-> generic_name, drug_class |-> drug_class,
     therapeutic_class |-> therapeutic_class, is_generic |-> is_generic]

\* one retrieved drug record: the fields of a store record (a field the store
\* did not return is the empty text), its provenance and its score
Candidate(doc, search_method, pct) ==
    [ndc |-> doc.ndc, drug_name |-> doc.drug_name, brand_name |-> doc.brand_name,
     generic_name |-> doc.generic_name, drug_class |-> doc.drug_class,
     therapeutic_class |-> doc.therapeutic_class, is_generic |-> doc.is_generic,
     search_method |-> search_method, similarity_score_pct |-> pct]

----------------------------------------------------------------------------
(* Values of the state that a stage has not set yet *)

\* a filter map: filter name -> value; the empty text stands for None, '', [], {}
NoFilters == [k \in {} |-> <<>>]

\* filters.get(key)
FilterGet(filters, key) == IF key \in DOMAIN filters THEN filters[key] ELSE <<>>

\* body.get('max_results', 20)
DEFAULT_MAX_RESULTS == 20

\* a request whose body gave no field: no query, no filters, the default count
NoRequest ==
    [body |-> "null", query |-> <<>>, max_results |-> DEFAULT_MAX_RESULTS,
     filters |-> NoFilters, redis_password |-> FALSE]

NoClasses == [drug_class |-> {}, therapeutic_class |-> {}]

NoInterp ==
    [expanded_query |-> <<>>, claude_terms |-> <<>>, original_terms |-> <<>>,
     exact_match_terms |-> <<>>, drug_terms |-> <<>>, corrections |-> <<>>,
     claude_filters |-> NoFilters, merged_filters |-> NoFilters, parse_warning |-> FALSE]

\* no response yet (statusCode 0)
NoResponse ==
    [statusCode |-> 0, success |-> FALSE, error |-> "", detail |-> "", results |-> <<>>,
     raw_results |-> <<>>, message |-> ""]

\* all sequences over S of length at most n
SeqsUpTo(S, n) == UNION {[1..k -> S] : k \in 0..n}

----------------------------------------------------------------------------
(* PostFilter: strength *)

\* greedy \s* from index j: the index one past the whitespace run
RECURSIVE SpaceRunEnd(_, _)
SpaceRunEnd(s, j) == IF j <= Len(s) /\ IsSpace(s[j]) THEN SpaceRunEnd(s, j + 1) ELSE j

\* the unit part of the pattern at index k: re.escape(unit), or [A-Z%] when no unit
UnitAt(s, k, unit) ==
    IF unit = NoUnit
    THEN k <= Len(s) /\ (IsUpperLetter(UpperChar(s[k])) \/ s[k] = "%")
    ELSE LitAtIgnoreCase(s, k, unit)

\* a pattern built without the lookbehind
LookbehindMissing(s, i) == TRUE

\* (?<!\d) at index i
LookbehindNoDigit(s, i) == i = 1 \/ ~IsDigit(s[i - 1])

\* (?!\d) at index j
LookaheadNoDigit(s, j) == j > Len(s) \/ ~IsDigit(s[j])

\* the compiled pattern (?<!\d)<number>(?!\d)\s*<unit> matches at index i
StrengthPatternMatchAt(s, i, number, unit) ==
    /\ LookbehindNoDigit(s, i)
    /\ LitAtIgnoreCase(s, i, number)
    /\ LookaheadNoDigit(s, i + Len(number))
    /\ \E k \in (i + Len(number))..SpaceRunEnd(s, i + Len(number)) : UnitAt(s, k, unit)

\* pattern.search(s): scan the start positions left to right
RECURSIVE StrengthPatternSearchFrom(_, _, _, _)
StrengthPatternSearchFrom(s, i, number, unit) ==
    IF i > Len(s) THEN FALSE
    ELSE IF StrengthPatternMatchAt(s, i, number, unit) THEN TRUE
    ELSE StrengthPatternSearchFrom(s, i + 1, number, unit)

StrengthPatternSearch(s, number, unit) == StrengthPatternSearchFrom(s, 1, number, unit)

\* any(pattern.search(drug_name.upper()) for pattern in strength_patterns)
MatchesAnyStrength(d, sv) ==
    \E p \in 1..Len(sv) : StrengthPatternSearch(Upper(d.drug_name), sv[p].number, sv[p].unit)

\* the strength post-filter over the candidate list
RECURSIVE FilterByStrength(_, _)
FilterByStrength(ds, sv) ==
    IF ds = <<>> THEN <<>>
    ELSE IF MatchesAnyStrength(Head(ds), sv)
         THEN <<Head(ds)>> \o FilterByStrength(Tail(ds), sv)
         ELSE FilterByStrength(Tail(ds), sv)

StrengthPostFilter(ds, sv) == IF sv = <<>> THEN ds ELSE FilterByStrength(ds, sv)

----------------------------------------------------------------------------
(* PostFilter: non-prescribable formulation bases *)

\* index one past a run of [_\s] starting at j
RECURSIVE SepRunEnd(_, _)
SepRunEnd(s, j) ==
    IF j <= Len(s) /\ (s[j] = "_" \/ IsSpace(s[j])) THEN SepRunEnd(s, j + 1) ELSE j

\* re.search(r'BASE[_\s]*NO\.', s)
MatchesBaseNo(s) ==
    \E i \in 1..Len(s) :
        /\ LitAt(s, i, <<"B","A","S","E">>)
        /\ \E k \in (i + 4)..SepRunEnd(s, i + 4) : LitAt(s, k, <<"N","O",".">>)

\* re.search(r'^WORD$', s): the whole text, a trailing newline allowed by $
MatchesWhole(s, word) == s = word \/ s = word \o <<"\n">>

\* re.search(r'DIAPER.*DISPOSABLE', s)
MatchesDiaper(s) ==
    \E i \in 1..Len(s) : \E j \in (i + 6)..Len(s) :
        /\ LitAt(s, i, <<"D","I","A","P","E","R">>)
        /\ LitAt(s, j, <<"D","I","S","P","O","S","A","B","L","E">>)
        /\ \A k \in (i + 6)..(j - 1) : s[k] # "\n"

\* re.search(r'VEHICLE[_\s]', s)
MatchesVehicle(s) ==
    \E i \in 1..Len(s) :
        /\ LitAt(s, i, <<"V","E","H","I","C","L","E">>)
        /\ i + 7 <= Len(s)
        /\ (s[i + 7] = "_" \/ IsSpace(s[i + 7]))

\* any(re.search(pattern, s) for pattern in generic_base_patterns)
MatchesGenericBasePattern(s) ==
    \/ MatchesBaseNo(s)
    \/ MatchesWhole(s, <<"M","E","N","T","H","O","L">>)
    \/ MatchesWhole(s, <<"C","A","M","P","H","O","R">>)
    \/ MatchesWhole(s, <<"G","E","L","F","I","L","M">>)
    \/ MatchesWhole(s, <<"P","O","L","Y","D","I","M","E","T","H","Y","L","S","I","L","O","X","A","N","E","S">>)
    \/ MatchesDiaper(s)
    \/ MatchesWhole(s, <<"H","Y","P","R","O","M","E","L","L","O","S","E">>)
    \/ MatchesVehicle(s)

is_generic_base(d) ==
    \/ MatchesGenericBasePattern(Upper(d.drug_class))
    \/ MatchesGenericBasePattern(Upper(d.drug_name))

\* the second post-filter of redis_hybrid_search
RECURSIVE RemoveGenericBases(_)
RemoveGenericBases(ds) ==
    IF ds = <<>> THEN <<>>
    ELSE IF is_generic_base(Head(ds))
         THEN RemoveGenericBases(Tail(ds))
         ELSE <<Head(ds)>> \o RemoveGenericBases(Tail(ds))

----------------------------------------------------------------------------
(* ResultGrouper *)

\* corpus of name fields used by every lexical containment test
Corpus(d) == JoinSpace(<<Lower(d.drug_name), Lower(d.brand_name), Lower(d.generic_name)>>)

\* any(token and token in corpus for token in tokens)
AnyTokenInCorpus(d, tokens) ==
    \E t \in 1..Len(tokens) : tokens[t] # <<>> /\ Contains(Corpus(d), tokens[t])

\* [term.lower() for term in terms]
LowerAll(terms) == [t \in 1..Len(terms) |-> Lower(terms[t])]

\* str(doc.get('is_generic', 'true')).lower() == 'false'
is_branded_product(d) == Lower(d.is_generic) = <<"f","a","l","s","e">>

\* a or b or c over texts
Or3(a, b, c) == IF a # <<>> THEN a ELSE IF b # <<>> THEN b ELSE c

\* a grouper that keys generics by their drug name, splitting the strengths
group_key_ByDrugName(d) ==
    IF is_branded_product(d)
    THEN <<"b","r","a","n","d",":">> \o Strip(d.brand_name)
    ELSE <<"g","e","n","e","r","i","c",":">> \o Strip(d.drug_name)

\* a grouper that keys every candidate by its drug_class, brand or not
group_key_ClassForAll(d) ==
    <<"g","e","n","e","r","i","c",":">> \o Or3(Strip(d.drug_class), Strip(d.generic_name), d.ndc)

group_key(d) ==
    IF is_branded_product(d)
    THEN <<"b","r","a","n","d",":">> \o Strip(d.brand_name)
    ELSE IF Strip(d.drug_class) # <<>>
         THEN <<"g","e","n","e","r","i","c",":">> \o Strip(d.drug_class)
         ELSE <<"g","e","n","e","r","i","c",":">> \o Or3(Strip(d.generic_name), Strip(d.drug_name), d.ndc)

\* classify_match_type: the classification of a vector-provenance first member
classify_match_type(d, tokens, requested_ndc) ==
    IF requested_ndc # <<>> /\ d.ndc = requested_ndc THEN "exact"
    ELSE IF AnyTokenInCorpus(d, tokens) THEN "exact"
    ELSE IF tokens = <<>> THEN "exact"
    ELSE "alternative"

\* a classification that ignores the provenance of the first member
FirstMemberMatchType_IgnoresProvenance(d, tokens, requested_ndc) ==
    classify_match_type(d, tokens, requested_ndc)

\* match_type of a new group, from the search_method of its first member
FirstMemberMatchType(d, tokens, requested_ndc) ==
    IF d.search_method = "drug_class_filter" THEN "pharmacologic"
    ELSE IF d.search_method = "therapeutic_class_filter" THEN "therapeutic_alternative"
    ELSE IF d.search_method = "filter" THEN "therapeutic_alternative"
    ELSE classify_match_type(d, tokens, requested_ndc)

\* best_similarity of a new group
FirstMemberSimilarity(d) ==
    IF d.search_method \in {"drug_class_filter", "therapeutic_class_filter", "filter"}
    THEN NoScore
    ELSE d.similarity_score_pct

\* the variant entry appended for every member
Variant(d) ==
    [ndc |-> d.ndc,
     label |-> Or3(d.drug_name, d.brand_name, d.generic_name),
     is_generic |-> (Lower(d.is_generic) = <<"t","r","u","e">>),
     similarity_score |-> d.similarity_score_pct]

NewGroup(d, tokens, requested_ndc) ==
    [group_id |-> group_key(d),
     is_generic |-> ~is_branded_product(d),
     match_type |-> FirstMemberMatchType(d, tokens, requested_ndc),
     best_similarity |-> FirstMemberSimilarity(d),
     primary_ndc |-> d.ndc,
     variants |-> <<Variant(d)>>]

\* an update that raises the best similarity only of a group that has one
UpdateGroup_NeedsScoredFirst(g, d) ==
    LET better == /\ d.similarity_score_pct # NoScore
                  /\ g.best_similarity # NoScore
                  /\ d.similarity_score_pct > g.best_similarity
    IN [g EXCEPT !.best_similarity = IF better THEN d.similarity_score_pct ELSE @,
                 !.primary_ndc = IF better /\ d.ndc # <<>> THEN d.ndc ELSE @,
                 !.variants = Append(@, Variant(d))]

\* a later member of an existing group
UpdateGroup(g, d) ==
    LET better == /\ d.similarity_score_pct # NoScore
                  /\ (g.best_similarity = NoScore
                        \/ d.similarity_score_pct > g.best_similarity)
    IN [g EXCEPT !.best_similarity = IF better THEN d.similarity_score_pct ELSE @,
                 !.primary_ndc = IF better /\ d.ndc # <<>> THEN d.ndc ELSE @,
                 !.variants = Append(@, Variant(d))]

\* a grouper that appends a variant only when it creates the group
AddToGroups_FirstMemberOnly(gs, d, tokens, requested_ndc) ==
    IF \E i \in 1..Len(gs) : gs[i].group_id = group_key(d)
    THEN gs
    ELSE Append(gs, NewGroup(d, tokens, requested_ndc))

\* one iteration of PASS 2
AddToGroups(gs, d, tokens, requested_ndc) ==
    IF group_key(d) = <<>> THEN gs
    ELSE IF \E i \in 1..Len(gs) : gs[i].group_id = group_key(d)
         THEN [i \in 1..Len(gs) |->
                  IF gs[i].group_id = group_key(d) THEN UpdateGroup(gs[i], d) ELSE gs[i]]
         ELSE Append(gs, NewGroup(d, tokens, requested_ndc))

RECURSIVE GroupPass(_, _, _, _)
GroupPass(ds, gs, tokens, requested_ndc) ==
    IF ds = <<>> THEN gs
    ELSE GroupPass(Tail(ds), AddToGroups(gs, Head(ds), tokens, requested_ndc),
                   tokens, requested_ndc)

\* priority.get(match_type, 3)
type_priority(g) ==
    IF g.match_type = "exact" THEN 0
    ELSE IF g.match_type = "pharmacologic" THEN 1
    ELSE IF g.match_type = "therapeutic_alternative" THEN 2
    ELSE 3

\* a comparison that ranks a missing similarity above every score
SimilaritySortLess_MissingFirst(a, b) ==
    IF a.best_similarity = NoScore THEN b.best_similarity # NoScore
    ELSE IF b.best_similarity = NoScore THEN FALSE
    ELSE (0 - a.best_similarity) < (0 - b.best_similarity)

\* similarity_sort of a < similarity_sort of b, where a missing similarity is +inf
SimilaritySortLess(a, b) ==
    IF a.best_similarity = NoScore THEN FALSE
    ELSE IF b.best_similarity = NoScore THEN TRUE
    ELSE (0 - a.best_similarity) < (0 - b.best_similarity)

\* a sort key that puts the similarity before the match type
sort_key_less_SimilarityFirst(a, b) ==
    \/ SimilaritySortLess(a, b)
    \/ ~SimilaritySortLess(b, a) /\ type_priority(a) < type_priority(b)

\* sort_key(a) < sort_key(b), tuples compared lexicographically
sort_key_less(a, b) ==
    \/ type_priority(a) < type_priority(b)
    \/ type_priority(a) = type_priority(b) /\ SimilaritySortLess(a, b)

\* list.sort is stable: an element goes before the first one with a greater key
RECURSIVE InsertSorted(_, _)
InsertSorted(sorted, g) ==
    IF sorted = <<>> THEN <<g>>
    ELSE IF sort_key_less(g, Head(sorted)) THEN <<g>> \o sorted
    ELSE <<Head(sorted)>> \o InsertSorted(Tail(sorted), g)

RECURSIVE SortGroups(_, _)
SortGroups(gs, sorted) ==
    IF gs = <<>> THEN sorted ELSE SortGroups(Tail(gs), InsertSorted(sorted, Head(gs)))

\* requested_ndc from filters.get('ndc')
requested_ndc_of(filters) == FilterGet(filters, "ndc")

group_search_results(ds, original_terms, filters) ==
    SortGroups(GroupPass(ds, <<>>, LowerAll(original_terms), requested_ndc_of(filters)),
               <<>>)

----------------------------------------------------------------------------
(* The candidate store: its records, as FT.SEARCH returns their fields *)

Catalog ==
    << StoreDoc(<<"1">>, <<"C","R","E","S"," ","2","0"," ","M","G">>, <<"C","R","E","S">>, <<"R","O","S","U">>, <<"R","O","S","U"," ","C","A">>,
                <<"S","t","a","t","i","n","s">>, <<"f","a","l","s","e">>),
       StoreDoc(<<"2">>, <<"R","O","S","U"," ","2","0"," ","M","G">>, <<>>, <<"R","O","S","U">>, <<"R","O","S","U"," ","C","A">>,
                <<"S","t","a","t","i","n","s">>, <<"t","r","u","e">>),
       StoreDoc(<<"3">>, <<"R","O","S","U"," ","1","2","0"," ","M","G">>, <<>>, <<"R","O","S","U">>, <<"R","O","S","U"," ","C","A">>,
                <<"S","t","a","t","i","n","s">>, <<"t","r","u","e">>),
       StoreDoc(<<"4">>, <<"A","T","O","R"," ","2","0"," ","M","G">>, <<>>, <<"A","T","O","R">>, <<"A","T","O","R"," ","C","A">>,
                <<"S","t","a","t","i","n","s">>, <<"t","r","u","e">>),
       StoreDoc(<<"5">>, <<"S","I","M","V"," ","2",".","5"," ","M","G">>, <<>>, <<"S","I","M","V">>, <<>>,
                <<"M","i","s","c","e","l","l","a","n","e","o","u","s">>, <<"t","r","u","e">>),
       StoreDoc(<<"6">>, <<"L","O","V","A"," ","2","0"," ","M","G">>, <<>>, <<"L","O","V","A">>, <<>>,
                <<"M","i","s","c","e","l","l","a","n","e","o","u","s">>, <<"t","r","u","e">>),
       StoreDoc(<<"7">>, <<"M","E","N","T","H","O","L">>, <<>>, <<"M","E","N","T","H","O","L">>, <<"M","E","N","T","H","O","L">>,
                <<"B","u","l","k"," ","C","h","e","m","i","c","a","l","s">>, <<"t","r","u","e">>) >>

----------------------------------------------------------------------------
(* The strength post-filter on its own: any name, one (number, unit) pair *)

NameChars == {"1", "2", " ", "M", "G", "g", "%"}

NamedCandidate(name) ==
    Candidate(StoreDoc(<<"9">>, name, <<>>, <<>>, <<>>, <<>>, <<"t","r","u","e">>), "vector", NoScore)

StrengthPair(number, unit) == [number |-> number, unit |-> unit]

StrengthInputs ==
    {[drugs |-> <<NamedCandidate(n)>>, sv |-> <<p>>] :
        n \in SeqsUpTo(NameChars, MaxNameLen),
        p \in {StrengthPair(<<"2">>, <<"M","G">>), StrengthPair(<<"1","2">>, <<"M","G">>),
               StrengthPair(<<"2">>, <<"G">>), StrengthPair(<<"2">>, NoUnit)}}
    \cup
    {[drugs |-> <<NamedCandidate(<<"D","R","U","G"," ","1","2","0","0"," ","M","G"," ","T","A","B","L","E","T">>),
                  NamedCandidate(<<"D","R","U","G"," ","2","0","0"," ","M","G"," ","T","A","B","L","E","T">>),
                  NamedCandidate(<<"d","r","u","g"," ","2","0","0","m","g">>)>>,
      sv |-> <<StrengthPair(<<"2","0","0">>, <<"M","G">>)>>]}
    \cup
    {[drugs |-> <<NamedCandidate(<<"S","I","M","V"," ","2",".","5"," ","M","G">>), NamedCandidate(<<"D","R","U","G"," ","1","1","2",".","5"," ","M","G">>),
                  NamedCandidate(<<"D","R","U","G"," ","5"," ","M","G">>)>>,
      sv |-> <<StrengthPair(number, <<"M","G">>)>>] : number \in {<<"5">>, <<"2",".","5">>}}

InitStrength ==
    /\ pc = "strength_filter"
    /\ \E in \in StrengthInputs : drugs = in.drugs /\ strength_values = in.sv
    /\ prev_drugs = <<>>
    /\ request = NoRequest
    /\ interp = NoInterp
    /\ term_i = 0
    /\ classes_to_expand = NoClasses
    /\ groups = <<>>
    /\ calls = <<>>
    /\ response = NoResponse

StrengthFilterCall ==
    /\ pc = "strength_filter"
    /\ prev_drugs' = drugs
    /\ drugs' = StrengthPostFilter(drugs, strength_values)
    /\ pc' = "strength_filtered"
    /\ UNCHANGED <<request, interp, term_i, strength_values, classes_to_expand, groups,
                   calls, response>>

NextStrength == StrengthFilterCall

SpecStrength == InitStrength /\ [][NextStrength]_vars

----------------------------------------------------------------------------
(* group_search_results on its own: any candidate list *)

\* brand CRES and generics ROSU 20 / ROSU 120 share a drug_class; SIMV and LOVA
\* are generics without one
GroupingCandidates ==
    {Candidate(Catalog[1], "vector", 40), Candidate(Catalog[1], "vector", NoScore),
     Candidate(Catalog[1], "drug_class_filter", NoScore),
     Candidate(Catalog[2], "vector", 90), Candidate(Catalog[2], "drug_class_filter", NoScore),
     Candidate(Catalog[2], "therapeutic_class_filter", NoScore),
     Candidate(Catalog[3], "vector", 40), Candidate(Catalog[3], "drug_class_filter", NoScore),
     Candidate(Catalog[5], "vector", 90), Candidate(Catalog[5], "filter", NoScore),
     Candidate(Catalog[6], "vector", NoScore),
     Candidate(Catalog[6], "therapeutic_class_filter", NoScore)}

GroupingInterps ==
    {[NoInterp EXCEPT !.exact_match_terms = a.terms,
                      !.merged_filters = IF a.ndc = <<>> THEN NoFilters
                                         ELSE [k \in {"ndc"} |-> a.ndc]] :
        a \in {[terms |-> <<<<"c","r","e","s">>>>, ndc |-> <<>>],
               [terms |-> <<<<"R","o","s","u">>>>, ndc |-> <<"5">>],
               [terms |-> <<>>, ndc |-> <<>>]}}

InitGroup ==
    /\ pc = "grouping"
    /\ drugs \in SeqsUpTo(GroupingCandidates, MaxDrugs)
    /\ interp \in GroupingInterps
    /\ prev_drugs = <<>>
    /\ request = NoRequest
    /\ term_i = 0
    /\ classes_to_expand = NoClasses
    /\ strength_values = <<>>
    /\ groups = <<>>
    /\ calls = <<>>
    /\ response = NoResponse

GroupCall ==
    /\ pc = "grouping"
    /\ prev_drugs' = drugs
    /\ groups' = group_search_results(drugs, interp.exact_match_terms, interp.merged_filters)
    /\ pc' = "grouped"
    /\ UNCHANGED <<request, interp, term_i, strength_values, classes_to_expand, drugs,
                   calls, response>>

NextGroup == GroupCall

SpecGroup == InitGroup /\ [][NextGroup]_vars

----------------------------------------------------------------------------
(* Claims about the strength post-filter *)

\* the name contains the number, not preceded and not followed by a digit, then
\* optional whitespace, then the unit (any letter or % when no unit was given)
NameHasStrength(name, number, unit) ==
    \E i \in 1..Len(name) : \E k \in (i + Len(number))..Len(name) :
        /\ SubSeq(Upper(name), i, i + Len(number) - 1) = Upper(number)
        /\ (i > 1 => ~IsDigit(name[i - 1]))
        /\ ~IsDigit(name[i + Len(number)])
        /\ \A w \in (i + Len(number))..(k - 1) : IsSpace(name[w])
        /\ IF unit = NoUnit
           THEN IsUpperLetter(name[k]) \/ IsLowerLetter(name[k]) \/ name[k] = "%"
           ELSE /\ k + Len(unit) - 1 <= Len(name)
                /\ SubSeq(Upper(name), k, k + Len(unit) - 1) = Upper(unit)

\* C4: the strength post-filter built from one (number, unit) pair keeps exactly
\* the candidates whose drug name contains the number, not immediately preceded
\* and not immediately followed by a digit, then optional whitespace, then the
\* unit (or any letter or '%' when no unit was given), in their original order.
C4_StrengthFilterExact ==
    (pc = "strength_filtered" /\ Len(strength_values) = 1) =>
        /\ \A i \in 1..Len(prev_drugs) :
              (\E j \in 1..Len(drugs) : drugs[j] = prev_drugs[i])
              <=> NameHasStrength(prev_drugs[i].drug_name, strength_values[1].number,
                                  strength_values[1].unit)
        /\ \A j \in 1..Len(drugs) : \E i \in 1..Len(prev_drugs) : prev_drugs[i] = drugs[j]

\* filter 200 MG has dropped DRUG 1200 MG TABLET and kept DRUG 200 MG TABLET
C4_Witness ==
    /\ pc = "strength_filtered"
    /\ strength_values = <<StrengthPair(<<"2","0","0">>, <<"M","G">>)>>
    /\ \E i \in 1..Len(prev_drugs) : prev_drugs[i].drug_name = <<"D","R","U","G"," ","1","2","0","0"," ","M","G"," ","T","A","B","L","E","T">>
    /\ \A j \in 1..Len(drugs) : drugs[j].drug_name # <<"D","R","U","G"," ","1","2","0","0"," ","M","G"," ","T","A","B","L","E","T">>
    /\ \E j \in 1..Len(drugs) : drugs[j].drug_name = <<"D","R","U","G"," ","2","0","0"," ","M","G"," ","T","A","B","L","E","T">>

----------------------------------------------------------------------------
(* Claims about group_search_results *)

\* the groups that hold a variant entry made from candidate d
GroupsOf(d) == {g \in 1..Len(groups) :
                   \E k \in 1..Len(groups[g].variants) : groups[g].variants[k] = Variant(d)}

\* C1: in the list group_search_results returns, every 'exact' group comes before
\* every 'pharmacologic' and every 'therapeutic_alternative' group, and every
\* 'pharmacologic' group before every 'therapeutic_alternative' group, whatever
\* the groups' best_similarity values, missing ones included.
C1_TierOrder ==
    pc = "grouped" =>
        \A i, j \in 1..Len(groups) :
            /\ (groups[i].match_type = "exact"
                  /\ groups[j].match_type \in {"pharmacologic", "therapeutic_alternative"})
               => i < j
            /\ (groups[i].match_type = "pharmacologic"
                  /\ groups[j].match_type = "therapeutic_alternative")
               => i < j

\* an exact group with a missing or lower best_similarity ranks above a
\* pharmacologic group that carries a score of 90
C1_Witness ==
    /\ pc = "grouped"
    /\ \E i, j \in 1..Len(groups) :
          /\ i < j
          /\ groups[i].match_type = "exact"
          /\ groups[i].best_similarity \in {NoScore, 40}
          /\ groups[j].match_type = "pharmacologic"
          /\ groups[j].best_similarity = 90

\* number of positions of the input list whose variant entry is v
InputCount(v) == Cardinality({i \in 1..Len(prev_drugs) : Variant(prev_drugs[i]) = v})

\* number of variant entries equal to v over all groups
OutputCount(v) ==
    Cardinality({p \in (1..Len(groups)) \X (1..MaxDrugs + 1) :
                    /\ p[2] <= Len(groups[p[1]].variants)
                    /\ groups[p[1]].variants[p[2]] = v})

RECURSIVE TotalVariants(_)
TotalVariants(gs) == IF gs = <<>> THEN 0 ELSE Len(Head(gs).variants) + TotalVariants(Tail(gs))

SameClassGenerics(i, j) ==
    /\ prev_drugs[i].drug_class = prev_drugs[j].drug_class
    /\ Lower(prev_drugs[i].is_generic) = <<"t","r","u","e">>
    /\ Lower(prev_drugs[j].is_generic) = <<"t","r","u","e">>

InOneGroup(i, j) ==
    /\ GroupsOf(prev_drugs[i]) = GroupsOf(prev_drugs[j])
    /\ Cardinality(GroupsOf(prev_drugs[i])) = 1

\* C6 as stated: all candidates of one run that share the same drug_class value
\* and have generic flag true land in one and the same group.
C6_SameClassOneGroup_Stated ==
    pc = "grouped" =>
        \A i, j \in 1..Len(prev_drugs) : SameClassGenerics(i, j) => InOneGroup(i, j)

\* C6 amended: all candidates of one run that share the same non-empty
\* drug_class value and have generic flag true land in one and the same group,
\* whatever their strengths, names or provenance.
C6_SameClassOneGroup ==
    pc = "grouped" =>
        \A i, j \in 1..Len(prev_drugs) :
            (SameClassGenerics(i, j) /\ Strip(prev_drugs[i].drug_class) # <<>>)
            => InOneGroup(i, j)

\* two generics of one class with different names and provenance share a group
C6_Witness ==
    /\ pc = "grouped"
    /\ \E i, j \in 1..Len(prev_drugs) :
          /\ SameClassGenerics(i, j)
          /\ Strip(prev_drugs[i].drug_class) # <<>>
          /\ prev_drugs[i].drug_name # prev_drugs[j].drug_name
          /\ prev_drugs[i].search_method # prev_drugs[j].search_method
          /\ InOneGroup(i, j)

HasPrefix(s, p) == LitAt(s, 1, p)

\* C7: no group holds both a branded candidate (is_generic = 'false') and a
\* non-branded one: branded candidates land only in groups keyed 'brand:...' and
\* all others only in groups keyed 'generic:...', also when a branded and a
\* generic candidate have the same drug_class.
C7_BrandIsolation ==
    pc = "grouped" =>
        /\ \A i \in 1..Len(prev_drugs) : \A g \in GroupsOf(prev_drugs[i]) :
              IF Lower(prev_drugs[i].is_generic) = <<"f","a","l","s","e">>
              THEN HasPrefix(groups[g].group_id, <<"b","r","a","n","d",":">>)
              ELSE HasPrefix(groups[g].group_id, <<"g","e","n","e","r","i","c",":">>)
        /\ \A i, j \in 1..Len(prev_drugs) :
              (Lower(prev_drugs[i].is_generic) = <<"f","a","l","s","e">>
                 /\ Lower(prev_drugs[j].is_generic) # <<"f","a","l","s","e">>)
              => GroupsOf(prev_drugs[i]) \cap GroupsOf(prev_drugs[j]) = {}

\* a branded and a generic candidate of the same drug_class were grouped
C7_Witness ==
    /\ pc = "grouped"
    /\ \E i, j \in 1..Len(prev_drugs) :
          /\ Lower(prev_drugs[i].is_generic) = <<"f","a","l","s","e">>
          /\ Lower(prev_drugs[j].is_generic) = <<"t","r","u","e">>
          /\ prev_drugs[i].drug_class = prev_drugs[j].drug_class
          /\ GroupsOf(prev_drugs[i]) # {}
          /\ GroupsOf(prev_drugs[j]) # {}

----------------------------------------------------------------------------
(* QueryInterpreter and FilterBuilder *)

max_terms == 8

\* [a-zA-Z0-9\-\+]
IsTokenChar(c) == IsUpperLetter(c) \/ IsLowerLetter(c) \/ IsDigit(c) \/ c \in {"-", "+"}

\* re.findall(r"[a-zA-Z0-9\-\+]+", s): cur is the token being read
RECURSIVE FindAllTokens(_, _)
FindAllTokens(s, cur) ==
    IF s = <<>> THEN (IF cur = <<>> THEN <<>> ELSE <<cur>>)
    ELSE IF IsTokenChar(Head(s)) THEN FindAllTokens(Tail(s), Append(cur, Head(s)))
    ELSE IF cur = <<>> THEN FindAllTokens(Tail(s), <<>>)
    ELSE <<cur>> \o FindAllTokens(Tail(s), <<>>)

InSeq(x, seq) == \E i \in 1..Len(seq) : seq[i] = x

\* the loop of extract_search_terms: unique tokens in order, stop at max_terms
RECURSIVE UniqueUpTo(_, _)
UniqueUpTo(tokens, seen) ==
    IF tokens = <<>> THEN seen
    ELSE LET seen2 == IF InSeq(Head(tokens), seen) THEN seen ELSE Append(seen, Head(tokens))
         IN IF Len(seen2) >= max_terms THEN seen2 ELSE UniqueUpTo(Tail(tokens), seen2)

extract_search_terms(text) ==
    IF text = <<>> THEN <<>> ELSE UniqueUpTo(FindAllTokens(Lower(text), <<>>), <<>>)

\* an allow-list that still holds dea_schedule
AUTO_APPLY_CLAUDE_FILTERS_WithDeaSchedule ==
    {"dosage_form", "strength", "dea_schedule", "is_generic", "ndc", "gcn_seqno"}

AUTO_APPLY_CLAUDE_FILTERS == {"dosage_form", "strength", "is_generic", "ndc", "gcn_seqno"}

\* a merge in which the collaborator's value wins
merge_filters_ClaudeWins(user_filters, claude_filters) ==
    LET from_claude == {k \in DOMAIN claude_filters :
                           k \in AUTO_APPLY_CLAUDE_FILTERS /\ claude_filters[k] # <<>>}
        from_user == {k \in DOMAIN user_filters : user_filters[k] # <<>>}
    IN [k \in from_claude \cup from_user |->
           IF k \in from_claude THEN claude_filters[k] ELSE user_filters[k]]

merge_filters(user_filters, claude_filters) ==
    LET from_claude == {k \in DOMAIN claude_filters :
                           k \in AUTO_APPLY_CLAUDE_FILTERS /\ claude_filters[k] # <<>>}
        from_user == {k \in DOMAIN user_filters : user_filters[k] # <<>>}
    IN [k \in from_claude \cup from_user |->
           IF k \in from_user THEN user_filters[k] ELSE claude_filters[k]]

\* a or b over texts
Or2(a, b) == IF a # <<>> THEN a ELSE b

\* the structured query expand_query_with_claude builds from a successful
\* collaborator response whose content decodes to a JSON object or is not JSON
structured_query(query, out) ==
    LET fallback_text == Strip(Or2(out.content, query))
        search_text == IF out.kind = "json_object"
                       THEN Strip(Or2(out.search_text, fallback_text))
                       ELSE fallback_text
        given_terms == IF out.kind = "json_object" THEN out.search_terms ELSE <<>>
    IN [search_text |-> search_text,
        filters |-> IF out.kind = "json_object" THEN out.filters ELSE NoFilters,
        corrections |-> IF out.kind = "json_object" THEN out.corrections ELSE <<>>,
        search_terms |-> IF given_terms # <<>> THEN given_terms
                         ELSE extract_search_terms(search_text),
        parse_warning |-> out.kind = "not_json"]

\* a policy that takes the collaborator terms whenever corrections exist
select_exact_match_terms_NoCountLimit(query, expanded_query, claude_terms, original_terms, corrections) ==
    IF corrections # <<>> THEN claude_terms
    ELSE IF claude_terms # <<>> /\ expanded_query # query THEN claude_terms
    ELSE original_terms

\* the term-selection policy of lambda_handler
select_exact_match_terms(query, expanded_query, claude_terms, original_terms, corrections) ==
    IF corrections # <<>> /\ Len(claude_terms) <= Len(original_terms) + 2 THEN claude_terms
    ELSE IF claude_terms # <<>> /\ expanded_query # query THEN claude_terms
    ELSE original_terms

\* [term for term in claude_terms if len(term) > 3]
RECURSIVE drug_terms_of(_)
drug_terms_of(terms) ==
    IF terms = <<>> THEN <<>>
    ELSE IF Len(Head(terms)) > 3 THEN <<Head(terms)>> \o drug_terms_of(Tail(terms))
    ELSE drug_terms_of(Tail(terms))

\* lines 76-120 of lambda_handler: everything derived from the interpretation
interpret(query, user_filters, out, content) ==
    LET sq == structured_query(query, out)
        expanded_query == Or2(sq.search_text, Or2(content, query))
        claude_terms == IF sq.search_terms # <<>> THEN sq.search_terms
                        ELSE extract_search_terms(expanded_query)
        original_terms == extract_search_terms(query)
    IN [expanded_query |-> expanded_query,
        claude_terms |-> claude_terms,
        original_terms |-> original_terms,
        exact_match_terms |-> select_exact_match_terms(query, expanded_query, claude_terms,
                                                       original_terms, sq.corrections),
        drug_terms |-> drug_terms_of(claude_terms),
        corrections |-> sq.corrections,
        claude_filters |-> sq.filters,
        merged_filters |-> merge_filters(user_filters, sq.filters),
        parse_warning |-> sq.parse_warning]

----------------------------------------------------------------------------
(* The request and the collaborators' answers *)

MAX_RESULTS_CAP == 100

\* 100 and 101 are the cap and the first rejected value
MaxResultsInputs == {-1, 1, 2, MAX_RESULTS_CAP, MAX_RESULTS_CAP + 1}

\* the empty text is a missing or empty query
QueryInputs == {<<>>, <<"c","r","e","s">>, <<"r","o","s","u"," ","2","0">>, <<"a","t","o","r"," ","r","o","s","u"," ","m","e","n","t","h","o","l">>}

UserFilterInputs == {NoFilters, [k \in {"strength"} |-> <<"1","2","0"," ","M","G">>], [k \in {"ndc"} |-> <<"2">>]}

\* texts of the exceptions and error results of the collaborators and the store
ExceptionTexts == {"timed out", "connection refused"}

JsonObject(content, search_text, search_terms, filters, corrections) ==
    [success |-> TRUE, kind |-> "json_object", content |-> content,
     search_text |-> search_text, search_terms |-> search_terms, filters |-> filters,
     corrections |-> corrections]

RawContent(kind, content) ==
    [success |-> TRUE, kind |-> kind, content |-> content, search_text |-> <<>>,
     search_terms |-> <<>>, filters |-> NoFilters, corrections |-> <<>>]

\* answers of the language-understanding collaborator
ClaudeOutcomes ==
    {[RawContent("failure", <<>>) EXCEPT !.success = FALSE],
     JsonObject(<<"{","1","}">>, <<"c","r","e","s">>, <<>>, NoFilters, <<<<"c","r","s","e"," ","-",">"," ","c","r","e","s">>>>),
     JsonObject(<<"{","2","}">>, <<"r","o","s","u"," ","l","o","v","a">>, <<<<"r","o","s","u">>, <<"l","o","v","a">>>>,
                [k \in {"strength"} |-> <<"2","0","m","g">>], <<>>),
     JsonObject(<<"{","3","}">>, <<"c","r","e","s"," ","r","o","s","u"," ","m","e","n","t","h","o","l">>, <<<<"c","r","e","s">>, <<"r","o","s","u">>, <<"m","e","n","t","h","o","l">>>>,
                [k \in {"strength"} |-> <<"2","0","m","g">>], <<>>),
     JsonObject(<<"{","4","}">>, <<"s","i","m","v"," ","l","o","v","a"," ","m","e","n","t","h","o","l">>, <<<<"s","i","m","v">>, <<"l","o","v","a">>, <<"m","e","n","t","h","o","l">>>>,
                NoFilters, <<>>),
     JsonObject(<<"{","5","}">>, <<"m","e","n","t","h","o","l">>, <<<<"m","e","n","t","h","o","l">>>>,
                [k \in {"dea_schedule"} |-> <<"2">>], <<>>),
     JsonObject(<<"{","6","}">>, <<"r","o","s","u"," ","2","0","0","0"," ","t","a","b","l","e","t">>, <<>>, NoFilters, <<>>),
     RawContent("not_json", <<" ","r","o","s","u"," ","2","0"," ">>),
     RawContent("json_other", <<"[","]">>)}

\* the answer field of a call that is not a collaborator conversation
NoAnswer == RawContent("none", <<>>)

\* the record of one conversation with the language-understanding collaborator
ClaudeCall(out) ==
    [svc |-> "claude", op |-> "converse", classes |-> {}, ok |-> out.success, answer |-> out]

\* the record of an external call that raised or returned a failure
Failed(call) == [call EXCEPT !.ok = FALSE]

\* error_response(status_code, message); detail is the text the caller
\* interpolates into the message (str(e) or the error of a failed stage)
error_response(status_code, message, detail) ==
    [NoResponse EXCEPT !.statusCode = status_code, !.error = message, !.detail = detail]

Init ==
    /\ pc = "start"
    /\ request = NoRequest
    /\ interp = NoInterp
    /\ term_i = 0
    /\ strength_values = <<>>
    /\ classes_to_expand = NoClasses
    /\ drugs = <<>>
    /\ prev_drugs = <<>>
    /\ groups = <<>>
    /\ calls = <<>>
    /\ response = NoResponse

\* event['body']: the text of a JSON object, null (a request sent without a
\* body), or a text that is not JSON
BodyInputs == {"json_object", "null", "not_json"}

\* lines 49-66: parse the body and validate; no collaborator is called
ParseAndValidate ==
    /\ pc = "start"
    /\ \E body \in BodyInputs, query \in QueryInputs, max_results \in MaxResultsInputs,
          user_filters \in UserFilterInputs, redis_password \in BOOLEAN,
          e \in ExceptionTexts :
          IF body # "json_object"
          THEN /\ request' = [NoRequest EXCEPT !.body = body,
                                               !.redis_password = redis_password]
               /\ pc' = "done"
               /\ response' = error_response(500, "Internal server error", e)
          ELSE /\ request' = [body |-> body, query |-> query, max_results |-> max_results,
                              filters |-> user_filters, redis_password |-> redis_password]
               /\ IF query = <<>>
                  THEN pc' = "done"
                       /\ response' = error_response(400, "Missing required field: query", "")
                  ELSE IF max_results > MAX_RESULTS_CAP
                  THEN pc' = "done"
                       /\ response' = error_response(400, "max_results cannot exceed 100", "")
                  ELSE pc' = "claude" /\ response' = response
    /\ UNCHANGED <<interp, term_i, strength_values, classes_to_expand, drugs, prev_drugs,
                   groups, calls>>

\* lines 68-122: the collaborator call, the interpretation and the strategy choice
ExpandQuery ==
    /\ pc = "claude"
    /\ \E out \in ClaudeOutcomes, e \in ExceptionTexts :
          /\ calls' = Append(calls, ClaudeCall(out))
          /\ IF ~out.success
             THEN /\ pc' = "done"
                  /\ response' = error_response(500, "Claude preprocessing failed", e)
                  /\ interp' = interp
             ELSE IF out.kind = "json_other"
             THEN /\ pc' = "done"
                  /\ response' = error_response(500, "Internal server error", e)
                  /\ interp' = interp
             ELSE /\ interp' = interpret(request.query, request.filters, out, out.content)
                  /\ pc' = IF Len(interp'.drug_terms) >= 3 THEN "multi_embed"
                           ELSE "single_embed"
                  /\ response' = response
    /\ UNCHANGED <<request, term_i, strength_values, classes_to_expand, drugs, prev_drugs,
                   groups>>

----------------------------------------------------------------------------
(* Strength extraction of redis_hybrid_search *)

\* \d+ read greedily from j
RECURSIVE DigitRunEnd(_, _)
DigitRunEnd(s, j) == IF j <= Len(s) /\ IsDigit(s[j]) THEN DigitRunEnd(s, j + 1) ELSE j

\* end of \d+(?:\.\d+)? starting at the digit s[i]; a shorter number would be
\* followed by a digit or a point, where neither \s nor a unit can start, so
\* the greedy reading is the only one that can match
NumberEnd(s, i) ==
    LET e == DigitRunEnd(s, i)
    IN IF e + 1 <= Len(s) /\ s[e] = "." /\ IsDigit(s[e + 1]) THEN DigitRunEnd(s, e + 1) ELSE e

\* (mg|mcg|g|ml|%|unit), tried in this order
UnitAlternatives == <<<<"M","G">>, <<"M","C","G">>, <<"G">>, <<"M","L">>, <<"%">>, <<"U","N","I","T">>>>

\* the first alternative that matches at k, upper-cased, or NoUnit
FirstUnitAt(s, k) ==
    LET hits == {a \in 1..Len(UnitAlternatives) : LitAtIgnoreCase(s, k, UnitAlternatives[a])}
    IN IF hits = {} THEN NoUnit
       ELSE UnitAlternatives[CHOOSE a \in hits : \A b \in hits : a <= b]

\* strength_pattern.search(s): the leftmost match as <<pair>>, or <<>>
RECURSIVE strength_pattern_search(_, _)
strength_pattern_search(s, i) ==
    IF i > Len(s) THEN <<>>
    ELSE IF IsDigit(s[i]) /\ FirstUnitAt(s, SpaceRunEnd(s, NumberEnd(s, i))) # NoUnit
    THEN <<StrengthPair(SubSeq(s, i, NumberEnd(s, i) - 1),
                        FirstUnitAt(s, SpaceRunEnd(s, NumberEnd(s, i))))>>
    ELSE strength_pattern_search(s, i + 1)

DigitVal(c) == CHOOSE v \in 0..9 : <<"0","1","2","3","4","5","6","7","8","9">>[v + 1] = c

RECURSIVE IntVal(_)
IntVal(digits) ==
    IF digits = <<>> THEN 0
    ELSE 10 * IntVal(SubSeq(digits, 1, Len(digits) - 1)) + DigitVal(digits[Len(digits)])

AllDigits(s) == \A i \in 1..Len(s) : IsDigit(s[i])

\* a plain decimal numeral: digits with at most one point and at least one digit
IsPlainDecimal(s) ==
    /\ \E i \in 1..Len(s) : IsDigit(s[i])
    /\ \A i \in 1..Len(s) : IsDigit(s[i]) \/ s[i] = "."
    /\ Cardinality({i \in 1..Len(s) : s[i] = "."}) <= 1

IntPart(s) == SubSeq(s, 1, DigitRunEnd(s, 1) - 1)
FracPart(s) == SubSeq(s, DigitRunEnd(s, 1) + 1, Len(s))

\* float(s) succeeds and 0.001 <= float(s) <= 10000, for plain decimals with an
\* optional leading sign; every other text is a ValueError or out of the range
FloatInStrengthRange(s) ==
    LET u == IF s # <<>> /\ Head(s) = "+" THEN Tail(s) ELSE s
    IN /\ IsPlainDecimal(u)
       /\ \/ IntVal(IntPart(u)) >= 1
          \/ \E k \in 1..3 : k <= Len(FracPart(u)) /\ FracPart(u)[k] # "0"
       /\ \/ IntVal(IntPart(u)) < 10000
          \/ IntVal(IntPart(u)) = 10000 /\ \A k \in 1..Len(FracPart(u)) : FracPart(u)[k] = "0"

\* unitless_number_pattern.fullmatch(term): \b(\d+(?:\.\d+)?)\b
IsUnitlessNumber(term) ==
    term # <<>> /\ IsDigit(term[1]) /\ NumberEnd(term, 1) = Len(term) + 1

\* re.sub(r"\s+", " ", term)
RECURSIVE CollapseSpaces(_)
CollapseSpaces(s) ==
    IF s = <<>> THEN <<>>
    ELSE IF IsSpace(Head(s)) THEN <<" ">> \o CollapseSpaces(LStrip(s))
    ELSE <<Head(s)>> \o CollapseSpaces(Tail(s))

\* cleaned term, or the empty text for None
sanitize_text_term(term) == Strip(CollapseSpaces(term))

\* the normalized terms of build_text_clause
RECURSIVE build_text_clause(_)
build_text_clause(terms) ==
    IF terms = <<>> THEN <<>>
    ELSE IF sanitize_text_term(Head(terms)) = <<>> THEN build_text_clause(Tail(terms))
    ELSE <<sanitize_text_term(Head(terms))>> \o build_text_clause(Tail(terms))

\* the fallback loop: every unitless number among the terms, in order
RECURSIVE UnitlessStrengths(_)
UnitlessStrengths(terms) ==
    IF terms = <<>> THEN <<>>
    ELSE IF IsUnitlessNumber(Head(terms)) /\ FloatInStrengthRange(Head(terms))
    THEN <<StrengthPair(Head(terms), NoUnit)>> \o UnitlessStrengths(Tail(terms))
    ELSE UnitlessStrengths(Tail(terms))

\* strength_values of redis_hybrid_search
parse_strength_values(filters, normalized_original) ==
    LET strength_str == Strip(FilterGet(filters, "strength"))
        from_filter == IF FilterGet(filters, "strength") = <<>> THEN <<>>
                       ELSE IF strength_pattern_search(strength_str, 1) # <<>>
                       THEN strength_pattern_search(strength_str, 1)
                       ELSE IF FloatInStrengthRange(strength_str)
                       THEN <<StrengthPair(strength_str, NoUnit)>>
                       ELSE <<>>
    IN IF from_filter # <<>> THEN from_filter ELSE UnitlessStrengths(normalized_original)

DOSAGE_FORM_TERMS ==
    {<<"c","r","e","a","m">>, <<"g","e","l">>, <<"t","a","b","l","e","t">>, <<"c","a","p","s","u","l","e">>, <<"i","n","j","e","c","t","i","o","n">>, <<"l","i","q","u","i","d">>,
     <<"s","o","l","u","t","i","o","n">>, <<"p","o","w","d","e","r">>, <<"p","a","t","c","h">>, <<"s","p","r","a","y">>, <<"i","n","h","a","l","e","r">>, <<"v","i","a","l">>,
     <<"a","m","p","u","l","e">>, <<"s","u","p","p","o","s","i","t","o","r","y">>, <<"l","o","t","i","o","n">>, <<"o","i","n","t","m","e","n","t">>, <<"d","r","o","p","s">>, <<"s","y","r","u","p">>,
     <<"s","u","s","p","e","n","s","i","o","n">>, <<"p","e","l","l","e","t">>, <<"s","y","r","i","n","g","e">>, <<"c","a","r","t","r","i","d","g","e">>, <<"i","n","j","e","c","t","a","b","l","e">>}

UNIT_TERMS == {<<"m","g">>, <<"m","c","g">>, <<"g">>, <<"m","l">>, <<"u","n","i","t">>, <<"u","n","i","t","s">>, <<"%">>}

\* drug_name_terms of redis_hybrid_search
RECURSIVE drug_name_terms_of(_)
drug_name_terms_of(terms) ==
    IF terms = <<>> THEN <<>>
    ELSE IF \/ Len(Head(terms)) <= 2
            \/ Lower(Head(terms)) \in DOSAGE_FORM_TERMS
            \/ Lower(Head(terms)) \in UNIT_TERMS
            \/ AllDigits(Head(terms))
    THEN drug_name_terms_of(Tail(terms))
    ELSE <<Head(terms)>> \o drug_name_terms_of(Tail(terms))

\* the terms of the lexical clause of redis_vector_only_search
RECURSIVE vector_only_terms_of(_)
vector_only_terms_of(terms) ==
    IF terms = <<>> THEN <<>>
    ELSE IF Len(Head(terms)) <= 2 THEN vector_only_terms_of(Tail(terms))
    ELSE <<Head(terms)>> \o vector_only_terms_of(Tail(terms))

----------------------------------------------------------------------------
(* FilterBuilder: the clause sent to the store *)

TAG_FIELDS == {"ndc", "drug_class", "dosage_form", "is_generic", "dea_schedule"}
NUMERIC_FIELDS == {"gcn_seqno"}

RECURSIVE ReplaceChar(_, _, _)
ReplaceChar(s, c, r) ==
    IF s = <<>> THEN <<>>
    ELSE (IF Head(s) = c THEN r ELSE <<Head(s)>>) \o ReplaceChar(Tail(s), c, r)

\* normalize_tag_values for one scalar value (the generic dosage forms that map
\* to several stored forms are not among the values of this model)
normalize_tag_values(field, value) ==
    LET token == Strip(value)
    IN IF field = "ndc" THEN ReplaceChar(token, "-", <<>>)
       ELSE IF field \in {"drug_class", "dosage_form"} THEN ReplaceChar(Upper(token), " ", <<"_">>)
       ELSE IF field = "is_generic" THEN Lower(token)
       ELSE Upper(token)

\* build_filter_clause: the set of field conditions, all of which must hold
build_filter_clause(filters) ==
    LET from_drug_type ==
            IF "drug_type" \in DOMAIN filters /\ Lower(filters["drug_type"]) = <<"g","e","n","e","r","i","c">>
            THEN {[field |-> "is_generic", value |-> <<"t","r","u","e">>]}
            ELSE IF "drug_type" \in DOMAIN filters /\ Lower(filters["drug_type"]) = <<"b","r","a","n","d">>
            THEN {[field |-> "is_generic", value |-> <<"f","a","l","s","e">>]}
            ELSE {}
        tags == {[field |-> k, value |-> normalize_tag_values(k, filters[k])] :
                    k \in {f \in DOMAIN filters \cap TAG_FIELDS :
                              normalize_tag_values(f, filters[f]) # <<>>}}
        numeric == {[field |-> k, value |-> filters[k]] :
                       k \in {f \in DOMAIN filters \cap NUMERIC_FIELDS : filters[f] # <<>>}}
    IN from_drug_type \cup tags \cup numeric

----------------------------------------------------------------------------
(* The candidate store: what FT.SEARCH answers over the Catalog *)

IsAlnum(c) == IsUpperLetter(c) \/ IsLowerLetter(c) \/ IsDigit(c)

\* the words the index holds for a text field
RECURSIVE IndexWords(_, _)
IndexWords(s, cur) ==
    IF s = <<>> THEN (IF cur = <<>> THEN {} ELSE {cur})
    ELSE IF IsAlnum(Head(s)) THEN IndexWords(Tail(s), Append(cur, LowerChar(Head(s))))
    ELSE (IF cur = <<>> THEN {} ELSE {cur}) \cup IndexWords(Tail(s), <<>>)

\* @field:term*
PrefixMatch(field_text, term) ==
    \E w \in IndexWords(field_text, <<>>) : LitAt(w, 1, Lower(term))

\* (@drug_name:t* | @brand_name:t* | @generic_name:t* | ...) over all terms;
\* no lexical part when there is no term
LexicalGate(doc, terms) ==
    \/ terms = <<>>
    \/ \E t \in 1..Len(terms) :
          \/ PrefixMatch(doc.drug_name, terms[t])
          \/ PrefixMatch(doc.brand_name, terms[t])
          \/ PrefixMatch(doc.generic_name, terms[t])

\* one field condition of the filter clause; the records of the Catalog
\* carry no dosage_form, dea_schedule or gcn_seqno
FieldMatch(doc, cond) ==
    IF cond.field = "ndc" THEN doc.ndc = cond.value
    ELSE IF cond.field = "is_generic" THEN Lower(doc.is_generic) = cond.value
    ELSE IF cond.field = "drug_class"
    THEN ReplaceChar(Upper(Strip(doc.drug_class)), " ", <<"_">>) = cond.value
    ELSE FALSE

FilterGate(doc, clause) == \A cond \in clause : FieldMatch(doc, cond)

\* the score field is absent from the returned record
NoDistance == 9999

\* cosine distances (in hundredths) the index may report for the Catalog
\* (over 1 for the first record, absent for the second, below 0 for the last)
ScoreProfiles ==
    {[i \in 1..Len(Catalog) |-> 10 * i],
     [i \in 1..Len(Catalog) |-> IF i = 2 THEN NoDistance ELSE 130 - 20 * i]}

\* a conversion that does not clamp
similarity_score_pct_Unclamped(distance) ==
    IF distance = NoDistance THEN NoScore ELSE 100 - distance

\* round(max(0.0, min(1.0, 1.0 - distance)) * 100, 2), distance in hundredths
similarity_score_pct(distance) ==
    IF distance = NoDistance THEN NoScore
    ELSE IF 100 - distance < 0 THEN 0
    ELSE IF 100 - distance > 100 THEN 100
    ELSE 100 - distance

\* SORTBY score ASC
RECURSIVE NearestFirst(_, _)
NearestFirst(S, dist) ==
    IF S = {} THEN <<>>
    ELSE LET m == CHOOSE i \in S :
                    \A j \in S : dist[i] < dist[j] \/ (dist[i] = dist[j] /\ i <= j)
         IN <<m>> \o NearestFirst(S \ {m}, dist)

\* s[:k] of Python, k of either sign
PySliceTo(s, k) ==
    LET stop == IF k >= 0 THEN (IF k < Len(s) THEN k ELSE Len(s))
                ELSE (IF Len(s) + k > 0 THEN Len(s) + k ELSE 0)
    IN SubSeq(s, 1, stop)

\* filter=>[KNN limit @embedding $vec AS score] ... LIMIT 0 limit, parsed into candidates
knn_search(clause, terms, limit, dist) ==
    LET hits == {i \in 1..Len(Catalog) :
                    FilterGate(Catalog[i], clause) /\ LexicalGate(Catalog[i], terms)}
        order == PySliceTo(NearestFirst(hits, dist), limit)
    IN [k \in 1..Len(order) |->
           Candidate(Catalog[order[k]], "vector", similarity_score_pct(dist[order[k]]))]

RECURSIVE CatalogOrder(_)
CatalogOrder(S) ==
    IF S = {} THEN <<>>
    ELSE LET m == CHOOSE i \in S : \A j \in S : i <= j
         IN <<m>> \o CatalogOrder(S \ {m})

HasNdc(ds, ndc) == \E i \in 1..Len(ds) : ds[i].ndc = ndc

\* a parse loop that appends every record the store returns
RECURSIVE AppendNew_NoSkip(_, _, _)
AppendNew_NoSkip(ds, order, search_method) ==
    IF order = <<>> THEN ds
    ELSE AppendNew_NoSkip(Append(ds, Candidate(Catalog[Head(order)], search_method, NoScore)),
                          Tail(order), search_method)

\* the parse loop of an expansion: skip records already present, mark the rest
RECURSIVE AppendNew(_, _, _)
AppendNew(ds, order, search_method) ==
    IF order = <<>> THEN ds
    ELSE IF HasNdc(ds, Catalog[Head(order)].ndc) THEN AppendNew(ds, Tail(order), search_method)
    ELSE AppendNew(Append(ds, Candidate(Catalog[Head(order)], search_method, NoScore)),
                   Tail(order), search_method)

\* an expansion that gives the records it adds a full score
drug_class_expansion_Scored(ds, clause, classes, limit) ==
    LET hits == {i \in 1..Len(Catalog) :
                    /\ FilterGate(Catalog[i], clause)
                    /\ \E c \in classes : Upper(Strip(Catalog[i].drug_class)) = Upper(c)}
        out == AppendNew(ds, PySliceTo(CatalogOrder(hits), limit), "drug_class_filter")
    IN [i \in 1..Len(out) |->
           IF i > Len(ds) THEN [out[i] EXCEPT !.similarity_score_pct = 100] ELSE out[i]]

\* @drug_class:("a" | "b") with the filter clause, LIMIT 0 limit
drug_class_expansion(ds, clause, classes, limit) ==
    LET hits == {i \in 1..Len(Catalog) :
                    /\ FilterGate(Catalog[i], clause)
                    /\ \E c \in classes : Upper(Strip(Catalog[i].drug_class)) = Upper(c)}
    IN AppendNew(ds, PySliceTo(CatalogOrder(hits), limit), "drug_class_filter")

\* @therapeutic_class:{a | b} with the filter clause, LIMIT 0 limit
therapeutic_class_expansion(ds, clause, classes, limit) ==
    LET hits == {i \in 1..Len(Catalog) :
                    /\ FilterGate(Catalog[i], clause)
                    /\ Catalog[i].therapeutic_class \in classes}
    IN AppendNew(ds, PySliceTo(CatalogOrder(hits), limit), "therapeutic_class_filter")

THERAPEUTIC_CLASS_BLACKLIST ==
    {<<"B","u","l","k"," ","C","h","e","m","i","c","a","l","s">>, <<"M","i","s","c","e","l","l","a","n","e","o","u","s">>, <<"U","n","c","a","t","e","g","o","r","i","z","e","d">>, <<"N","o","t"," ","S","p","e","c","i","f","i","e","d">>}

\* a filter that lets every collected class through
therapeutic_classes_unfiltered(classes) == classes

therapeutic_classes_filtered(classes) ==
    {tc \in classes : tc \notin THERAPEUTIC_CLASS_BLACKLIST}

\* an anchor test that compares the terms as they were typed
IsAnchor_CaseSensitive(d, terms) == AnyTokenInCorpus(d, terms)

\* the anchors: candidates whose names contain one of the terms
IsAnchor(d, terms) == AnyTokenInCorpus(d, LowerAll(terms))

\* drug_classes_to_expand and therapeutic_classes_to_expand
anchor_classes(ds, terms) ==
    [drug_class |-> {Strip(ds[i].drug_class) :
                        i \in {j \in 1..Len(ds) : IsAnchor(ds[j], terms)
                                                  /\ Strip(ds[j].drug_class) # <<>>}},
     therapeutic_class |-> {Strip(ds[i].therapeutic_class) :
                        i \in {j \in 1..Len(ds) : IsAnchor(ds[j], terms)
                                                  /\ Strip(ds[j].therapeutic_class) # <<>>}}]

StoreCall(op, classes) ==
    [svc |-> "store", op |-> op, classes |-> classes, ok |-> TRUE, answer |-> NoAnswer]

EmbeddingCall ==
    [svc |-> "embedding", op |-> "embed", classes |-> {}, ok |-> TRUE, answer |-> NoAnswer]

----------------------------------------------------------------------------
(* Single-concept strategy: redis_hybrid_search *)

\* lines 214-219: embed the expanded query
EmbedQuery ==
    /\ pc = "single_embed"
    /\ \E ok \in BOOLEAN, e \in ExceptionTexts :
          IF ok
          THEN /\ calls' = Append(calls, EmbeddingCall)
               /\ pc' = "hybrid_knn"
               /\ response' = response
          ELSE /\ calls' = Append(calls, Failed(EmbeddingCall))
               /\ pc' = "done"
               /\ response' = error_response(500, "Embedding generation failed", e)
    /\ UNCHANGED <<request, interp, term_i, strength_values, classes_to_expand, drugs,
                   prev_drugs, groups>>

\* the handler's answer to a failed redis_hybrid_search (lines 232-233)
HybridFailed(e) ==
    /\ pc' = "done"
    /\ response' = error_response(500, "Redis search failed", e)

\* lines 564-819: strength extraction, the KNN query and the anchors; the
\* store rejects a KNN count or LIMIT that is not positive as a query error
HybridKnn ==
    /\ pc = "hybrid_knn"
    /\ LET normalized_original == build_text_clause(interp.exact_match_terms)
           limit == request.max_results * 3
       IN IF ~request.redis_password
          THEN /\ HybridFailed("REDIS_PASSWORD environment variable not set")
               /\ UNCHANGED <<calls, drugs, strength_values, classes_to_expand>>
          ELSE \E ok \in BOOLEAN, dist \in ScoreProfiles, e \in ExceptionTexts :
                     IF ok /\ limit > 0
                     THEN /\ calls' = Append(calls, StoreCall("knn", {}))
                          /\ strength_values' =
                                 parse_strength_values(interp.merged_filters, normalized_original)
                          /\ drugs' = knn_search(build_filter_clause(interp.merged_filters),
                                                 drug_name_terms_of(normalized_original),
                                                 limit, dist)
                          /\ classes_to_expand' = anchor_classes(drugs', interp.exact_match_terms)
                          /\ pc' = "hybrid_drug_class"
                          /\ response' = response
                     ELSE /\ calls' = Append(calls, Failed(StoreCall("knn", {})))
                          /\ HybridFailed(e)
                          /\ UNCHANGED <<drugs, strength_values, classes_to_expand>>
    /\ UNCHANGED <<request, interp, term_i, prev_drugs, groups>>

\* lines 821-884: expansion by the drug classes of the anchors
HybridDrugClassExpansion ==
    /\ pc = "hybrid_drug_class"
    /\ IF classes_to_expand.drug_class = {}
       THEN /\ pc' = "hybrid_therapeutic"
            /\ UNCHANGED <<calls, drugs, response>>
       ELSE \E ok \in BOOLEAN, e \in ExceptionTexts :
               IF ok
               THEN /\ calls' = Append(calls,
                                       StoreCall("drug_class", classes_to_expand.drug_class))
                    /\ drugs' = drug_class_expansion(
                                    drugs, build_filter_clause(interp.merged_filters),
                                    classes_to_expand.drug_class, request.max_results * 3 * 2)
                    /\ pc' = "hybrid_therapeutic"
                    /\ response' = response
               ELSE /\ calls' = Append(calls, Failed(StoreCall("drug_class",
                                                               classes_to_expand.drug_class)))
                    /\ HybridFailed(e)
                    /\ drugs' = drugs
    /\ UNCHANGED <<request, interp, term_i, strength_values, classes_to_expand, prev_drugs,
                   groups>>

\* lines 886-968: expansion by the therapeutic classes that pass the blacklist
HybridTherapeuticExpansion ==
    /\ pc = "hybrid_therapeutic"
    /\ LET classes == therapeutic_classes_filtered(classes_to_expand.therapeutic_class)
       IN IF classes = {}
          THEN /\ pc' = "hybrid_post_filter"
               /\ UNCHANGED <<calls, drugs, response>>
          ELSE \E ok \in BOOLEAN, e \in ExceptionTexts :
                  IF ok
                  THEN /\ calls' = Append(calls, StoreCall("therapeutic_class", classes))
                       /\ drugs' = therapeutic_class_expansion(
                                       drugs, build_filter_clause(interp.merged_filters),
                                       classes, request.max_results * 3 * 2)
                       /\ pc' = "hybrid_post_filter"
                       /\ response' = response
                  ELSE /\ calls' = Append(calls, Failed(StoreCall("therapeutic_class",
                                                                  classes)))
                       /\ HybridFailed(e)
                       /\ drugs' = drugs
    /\ UNCHANGED <<request, interp, term_i, strength_values, classes_to_expand, prev_drugs,
                   groups>>

\* lines 970-1061: the two post-filters, the grouping and the message
HybridPostFilterAndGroup ==
    /\ pc = "hybrid_post_filter"
    /\ prev_drugs' = drugs
    /\ drugs' = RemoveGenericBases(StrengthPostFilter(drugs, strength_values))
    /\ groups' = group_search_results(drugs', build_text_clause(interp.exact_match_terms),
                                      interp.merged_filters)
    /\ response' = [response EXCEPT !.message =
                       IF groups' = <<>> THEN "No results found for the provided criteria."
                       ELSE ""]
    /\ pc' = "respond"
    /\ UNCHANGED <<request, interp, term_i, strength_values, classes_to_expand, calls>>

----------------------------------------------------------------------------
(* Multi-concept strategy *)

\* a combination that keeps every result of every term
AddUnique_NoDedupe(ds, new) == ds \o new

\* candidates not yet seen, in order (lines 150-156)
RECURSIVE AddUnique(_, _)
AddUnique(ds, new) ==
    IF new = <<>> THEN ds
    ELSE IF Head(new).ndc = <<>> \/ HasNdc(ds, Head(new).ndc) THEN AddUnique(ds, Tail(new))
    ELSE AddUnique(Append(ds, Head(new)), Tail(new))

\* where the loop over drug_terms goes after the term in hand
NextTermPc == IF term_i + 1 = Len(interp.drug_terms) THEN "multi_expand" ELSE "multi_embed"

\* a loop that gives up the request on the first embedding failure
MultiEmbeddingFailed_Fatal ==
    /\ calls' = Append(calls, Failed(EmbeddingCall))
    /\ drugs' = drugs
    /\ pc' = "done"
    /\ response' = error_response(500, "Embedding generation failed", "")

\* lines 137-140: the embedding of the term failed, the term is skipped
MultiEmbeddingFailed ==
    /\ calls' = Append(calls, Failed(EmbeddingCall))
    /\ drugs' = drugs
    /\ pc' = NextTermPc
    /\ response' = response

\* lines 135-157: one turn of the loop over drug_terms
MultiEmbedAndSearch ==
    /\ pc = "multi_embed"
    /\ term_i < Len(interp.drug_terms)
    /\ term_i' = term_i + 1
    /\ LET drug_term == interp.drug_terms[term_i + 1]
       IN \E embedded \in BOOLEAN, ok \in BOOLEAN, dist \in ScoreProfiles :
             IF ~embedded
             THEN MultiEmbeddingFailed
             ELSE /\ pc' = NextTermPc
                  /\ response' = response
                  /\ IF ~request.redis_password
                     THEN calls' = Append(calls, EmbeddingCall) /\ drugs' = drugs
                     ELSE IF ~ok
                     THEN /\ calls' = calls \o <<EmbeddingCall, Failed(StoreCall("knn", {}))>>
                          /\ drugs' = drugs
                     ELSE /\ calls' = calls \o <<EmbeddingCall, StoreCall("knn", {})>>
                          /\ drugs' = AddUnique(drugs,
                                          knn_search(build_filter_clause(interp.merged_filters),
                                                     vector_only_terms_of(
                                                         build_text_clause(<<drug_term>>)),
                                                     20, dist))
    /\ UNCHANGED <<request, interp, strength_values, classes_to_expand, prev_drugs, groups>>

\* an expansion pass that asks for the therapeutic classes first
MultiExpansion_TherapeuticFirst ==
    /\ pc = "multi_expand"
    /\ LET found == anchor_classes(drugs, interp.exact_match_terms)
           clause == build_filter_clause(interp.merged_filters)
           tcs == therapeutic_classes_filtered(found.therapeutic_class)
           dc_call == IF found.drug_class = {} THEN <<>>
                      ELSE <<StoreCall("drug_class", found.drug_class)>>
           tc_call == IF tcs = {} THEN <<>> ELSE <<StoreCall("therapeutic_class", tcs)>>
           after_tc == IF tcs = {} THEN drugs
                       ELSE therapeutic_class_expansion(drugs, clause, tcs, 100)
           after_dc == IF found.drug_class = {} THEN after_tc
                       ELSE drug_class_expansion(after_tc, clause, found.drug_class, 100)
       IN IF ~request.redis_password
          THEN UNCHANGED <<calls, drugs, classes_to_expand>>
          ELSE /\ classes_to_expand' = found
               /\ calls' = calls \o tc_call \o dc_call
               /\ drugs' = after_dc
    /\ pc' = "multi_group"
    /\ UNCHANGED <<request, interp, term_i, strength_values, prev_drugs, groups, response>>

\* lines 165-170 and perform_drug_expansion: both expansions of the combined
\* vector results; any failure gives back the initial candidates
MultiExpansion ==
    /\ pc = "multi_expand"
    /\ LET found == anchor_classes(drugs, interp.exact_match_terms)
           clause == build_filter_clause(interp.merged_filters)
           tcs == therapeutic_classes_filtered(found.therapeutic_class)
           dc_call == IF found.drug_class = {} THEN <<>>
                      ELSE <<StoreCall("drug_class", found.drug_class)>>
           tc_call == IF tcs = {} THEN <<>> ELSE <<StoreCall("therapeutic_class", tcs)>>
           after_dc == IF found.drug_class = {} THEN drugs
                       ELSE drug_class_expansion(drugs, clause, found.drug_class, 100)
           after_tc == IF tcs = {} THEN after_dc
                       ELSE therapeutic_class_expansion(after_dc, clause, tcs, 100)
       IN IF ~request.redis_password
          THEN UNCHANGED <<calls, drugs, classes_to_expand>>
          ELSE /\ classes_to_expand' = found
               /\ \E outcome \in {"ok", "drug_class_error", "therapeutic_class_error"} :
                     IF outcome = "drug_class_error" /\ dc_call # <<>>
                     THEN calls' = calls \o <<Failed(dc_call[1])>> /\ drugs' = drugs
                     ELSE IF outcome = "therapeutic_class_error" /\ tc_call # <<>>
                     THEN calls' = calls \o dc_call \o <<Failed(tc_call[1])>> /\ drugs' = drugs
                     ELSE calls' = calls \o dc_call \o tc_call /\ drugs' = after_tc
    /\ pc' = "multi_group"
    /\ UNCHANGED <<request, interp, term_i, strength_values, prev_drugs, groups, response>>

\* lines 197-210: group the expanded candidates
MultiGroup ==
    /\ pc = "multi_group"
    /\ prev_drugs' = drugs
    /\ groups' = group_search_results(drugs, interp.exact_match_terms, interp.merged_filters)
    /\ pc' = "respond"
    /\ UNCHANGED <<request, interp, term_i, strength_values, classes_to_expand, drugs, calls,
                   response>>

----------------------------------------------------------------------------
(* The response *)

\* lines 235-313: truncate to max_results and answer
Respond ==
    /\ pc = "respond"
    /\ response' = [NoResponse EXCEPT
                       !.statusCode = 200, !.success = TRUE,
                       !.results = IF Len(groups) > request.max_results
                                   THEN PySliceTo(groups, request.max_results)
                                   ELSE groups,
                       !.raw_results = drugs,
                       !.message = response.message]
    /\ pc' = "done"
    /\ UNCHANGED <<request, interp, term_i, strength_values, classes_to_expand, drugs,
                   prev_drugs, groups, calls>>

Next ==
    \/ ParseAndValidate
    \/ ExpandQuery
    \/ EmbedQuery
    \/ HybridKnn
    \/ HybridDrugClassExpansion
    \/ HybridTherapeuticExpansion
    \/ HybridPostFilterAndGroup
    \/ MultiEmbedAndSearch
    \/ MultiExpansion
    \/ MultiGroup
    \/ Respond

Spec == Init /\ [][Next]_vars

----------------------------------------------------------------------------
(* Claims about the search handler *)

Done == pc = "done"
Succeeded == Done /\ response.statusCode = 200

\* the variants of the groups of the response, as a set of <<group, position>>
ReturnedVariants ==
    {gv \in (1..Len(response.results)) \X (1..MaxVariants) :
        gv[2] <= Len(response.results[gv[1]].variants)}

\* C2: in every successful response, on either retrieval strategy, no
\* candidate of raw_results and no variant of a returned group has a drug
\* class or drug name matching a non-prescribable pattern.
C2_NoNonPrescribable_Stated ==
    Succeeded =>
        /\ \A i \in 1..Len(response.raw_results) : ~is_generic_base(response.raw_results[i])
        /\ \A gv \in ReturnedVariants :
              ~MatchesGenericBasePattern(Upper(response.results[gv[1]].variants[gv[2]].label))

\* the (number, unit) the merged filters carry, as <<pair>>, or <<>>
RequestedStrength ==
    IF FilterGet(interp.merged_filters, "strength") = <<>> THEN <<>>
    ELSE strength_pattern_search(Strip(FilterGet(interp.merged_filters, "strength")), 1)

\* C3: whenever the merged filters carry a strength with number and unit, the
\* strength post-filter runs after the expansions and before grouping, so
\* every variant of every group of a successful response, on either
\* retrieval strategy, has a drug name matching the requested strength.
C3_StrengthEverywhere_Stated ==
    (Succeeded /\ RequestedStrength # <<>>) =>
        \A gv \in ReturnedVariants :
            StrengthPatternSearch(Upper(response.results[gv[1]].variants[gv[2]].label),
                                  RequestedStrength[1].number, RequestedStrength[1].unit)

\* min(n, max_results) groups from the front; none when that is not positive
FirstGroups(gs, k) ==
    IF k <= 0 THEN <<>> ELSE IF k < Len(gs) THEN SubSeq(gs, 1, k) ELSE gs

\* C8: for any accepted max_results and any number n of ranked groups, the
\* results of the response are exactly the first min(n, max_results) groups
\* of the fully ranked list, in rank order.
C8_TopGroups_Stated ==
    Succeeded => response.results = FirstGroups(groups, request.max_results)

\* C9: a request with no query (missing or empty) or with max_results over
\* 100 is answered 400, with no call to the language-understanding
\* collaborator, the embedding collaborator or the candidate store.
C9_RejectedBeforeAnyCall_Stated ==
    (Done /\ (request.query = <<>> \/ request.max_results > MAX_RESULTS_CAP)) =>
        (response.statusCode = 400 /\ calls = <<>>)

TherapeuticCalls == {i \in 1..Len(calls) : calls[i].op = "therapeutic_class"}

\* the stages after the therapeutic expansion of either strategy
PastTherapeuticExpansion == pc \in {"hybrid_post_filter", "multi_group", "respond"}

\* C10: no therapeutic expansion query includes a denylisted therapeutic
\* class, and when every therapeutic class collected from the anchors is
\* denylisted no therapeutic expansion query is issued at all, in
\* redis_hybrid_search and in perform_drug_expansion alike.
C10_DenylistedNeverExpanded ==
    /\ \A i \in TherapeuticCalls :
          calls[i].classes # {} /\ calls[i].classes \cap THERAPEUTIC_CLASS_BLACKLIST = {}
    /\ (PastTherapeuticExpansion
          /\ classes_to_expand.therapeutic_class \subseteq THERAPEUTIC_CLASS_BLACKLIST)
       => TherapeuticCalls = {}

\* the anchors of a single-concept search carry only denylisted classes
C10_Witness ==
    /\ pc = "hybrid_post_filter"
    /\ classes_to_expand.therapeutic_class # {}
    /\ classes_to_expand.therapeutic_class \subseteq THERAPEUTIC_CLASS_BLACKLIST
    /\ TherapeuticCalls = {}

FailedStoreCalls == {i \in 1..Len(calls) : calls[i].svc = "store" /\ ~calls[i].ok}

\* C11: whenever a candidate-store query of a request fails (a per-term
\* vector search, the hybrid search, the pharmacologic or the therapeutic
\* expansion query), the request ends with an error response that names the
\* failing stage, never with a success response.
C11_StoreFailureIsFatal_Stated ==
    (Done /\ FailedStoreCalls # {}) =>
        (response.statusCode = 500 /\ response.error = "Redis search failed")

\* the collaborator answered, and its text is not a JSON object
AnsweredUnstructured ==
    /\ calls # <<>>
    /\ calls[1].ok
    /\ calls[1].answer.kind \in {"not_json", "json_other"}

\* C12: for every successful collaborator call whose text is not a valid
\* structured JSON object (non-JSON text, or JSON of another shape such as an
\* array, a string or a number) the interpretation does not fail the
\* request: it carries a parse warning, the fallback search text and the
\* terms obtained by tokenizing that text.
C12_UnstructuredAnswerRecovered_Stated ==
    AnsweredUnstructured =>
        /\ ~(Done /\ Len(calls) = 1)
        /\ interp.parse_warning
        /\ interp.expanded_query = Strip(Or2(calls[1].answer.content, request.query))
        /\ interp.claude_terms = extract_search_terms(interp.expanded_query)

\* C13: whenever the pipeline completes with zero groups, on either
\* retrieval strategy, the response is a success (status 200, success true,
\* empty results) that carries a non-empty explanatory message.
C13_EmptyResultExplained_Stated ==
    (Succeeded /\ groups = <<>>) =>
        (response.success /\ response.results = <<>> /\ response.message # "")

\* C14: the error returned to the caller never contains internal exception
\* text: requests failing at the same stage with different exception
\* messages receive the same error body, a generic message plus the stage.
C14_NoExceptionTextInError_Stated ==
    (Done /\ response.statusCode # 200) => response.detail \notin ExceptionTexts

IsPrefix(a, b) == Len(a) <= Len(b) /\ SubSeq(b, 1, Len(a)) = a

FailedEmbeddingCalls == {i \in 1..Len(calls) : calls[i].svc = "embedding" /\ ~calls[i].ok}

\* the step in hand recorded a failed embedding call
EmbeddingFailsInStep ==
    \E i \in (Len(calls) + 1)..Len(calls') : calls'[i].svc = "embedding" /\ ~calls'[i].ok

IsVariantOf(d, gs) ==
    \E g \in 1..Len(gs) : \E v \in 1..Len(gs[g].variants) : gs[g].variants[v].ndc = d.ndc

\* what the claim asks of each step of the multi-concept strategy
C15_Step ==
    /\ (pc = "multi_embed" /\ EmbeddingFailsInStep) =>
          /\ pc' \in {"multi_embed", "multi_expand"}
          /\ term_i' = term_i + 1
          /\ drugs' = drugs
          /\ response' = response
    /\ pc = "multi_embed" => IsPrefix(drugs, drugs')
    /\ pc = "multi_expand" => (pc' = "multi_group" /\ IsPrefix(drugs, drugs'))
    /\ pc = "multi_group" =>
          (pc' = "respond" /\ \A i \in 1..Len(drugs) : IsVariantOf(drugs[i], groups'))

\* C15: in the multi-concept strategy a term whose embedding fails is
\* skipped and the loop goes on with the remaining terms; the request does
\* not end in an error because of it, and the candidates retrieved for the
\* other terms still reach expansion and grouping.
C15_EmbeddingFailureSkipsTerm ==
    /\ [](Done /\ Len(interp.drug_terms) >= 3 => response.statusCode = 200)
    /\ [][C15_Step]_vars

\* one embedding failed, another term's candidates were grouped and returned
C15_Witness ==
    /\ Succeeded
    /\ FailedEmbeddingCalls # {}
    /\ response.results # <<>>
    /\ \E i \in 1..Len(response.raw_results) : response.raw_results[i].search_method = "vector"

----------------------------------------------------------------------------
(* merge_filters on its own: any pair of filter maps over a few keys *)

\* two keys of the allow-list and one outside it
MergeKeys == {"strength", "ndc", "dea_schedule"}

\* the empty text stands for None, '', [] and {}
MergeValues == {<<>>, <<"2","0","m","g">>, <<"5","m","g">>}

FilterMaps == UNION {[keys -> MergeValues] : keys \in SUBSET MergeKeys}

InitMerge ==
    /\ pc = "merging"
    /\ \E user_filters \in FilterMaps, claude_filters \in FilterMaps :
          /\ request = [NoRequest EXCEPT !.filters = user_filters]
          /\ interp = [NoInterp EXCEPT !.claude_filters = claude_filters]
    /\ term_i = 0
    /\ strength_values = <<>>
    /\ classes_to_expand = NoClasses
    /\ drugs = <<>>
    /\ prev_drugs = <<>>
    /\ groups = <<>>
    /\ calls = <<>>
    /\ response = NoResponse

\* line 111: merged_filters = merge_filters(user_filters, claude_filters)
MergeCall ==
    /\ pc = "merging"
    /\ pc' = "merged"
    /\ interp' = [interp EXCEPT
                     !.merged_filters = merge_filters(request.filters, interp.claude_filters)]
    /\ UNCHANGED <<request, term_i, strength_values, classes_to_expand, drugs, prev_drugs,
                   groups, calls, response>>

NextMerge == MergeCall

SpecMerge == InitMerge /\ [][NextMerge]_vars

\* C16: merge_filters never auto-applies a collaborator-derived filter whose
\* key is outside the allow-list {dosage_form, strength, is_generic, ndc,
\* gcn_seqno}: such a key is in the merged filters only if the user gave it.
C16_OnlyAllowListedAutoApplied ==
    pc = "merged" =>
        \A k \in DOMAIN interp.merged_filters :
            \/ k \in {"dosage_form", "strength", "is_generic", "ndc", "gcn_seqno"}
            \/ (k \in DOMAIN request.filters /\ interp.merged_filters[k] = request.filters[k])

\* the collaborator proposed a dea_schedule and the merge left it out
C16_Witness ==
    /\ pc = "merged"
    /\ "dea_schedule" \in DOMAIN interp.claude_filters
    /\ interp.claude_filters["dea_schedule"] # <<>>
    /\ "dea_schedule" \notin DOMAIN interp.merged_filters
    /\ "strength" \in DOMAIN interp.merged_filters

SharedKeys == DOMAIN request.filters \cap DOMAIN interp.claude_filters

\* C17 as stated: for every key present in both filter maps and for any
\* user-supplied value, the merged filters hold the user's value for that
\* key and not the collaborator's.
C17_UserValueWins_Stated ==
    pc = "merged" =>
        \A k \in SharedKeys :
            k \in DOMAIN interp.merged_filters
            /\ interp.merged_filters[k] = request.filters[k]

\* C17, amended: for every key present in both filter maps whose user value
\* is not empty (None, '', [] or {}), the merged filters hold the user's
\* value; an empty user value is skipped, so the key then holds the
\* collaborator's value when that is allow-listed and not empty, and is
\* absent otherwise.
C17_UserValueWins ==
    pc = "merged" =>
        \A k \in SharedKeys :
            IF request.filters[k] # <<>>
            THEN k \in DOMAIN interp.merged_filters
                 /\ interp.merged_filters[k] = request.filters[k]
            ELSE IF k \in AUTO_APPLY_CLAUDE_FILTERS /\ interp.claude_filters[k] # <<>>
            THEN k \in DOMAIN interp.merged_filters
                 /\ interp.merged_filters[k] = interp.claude_filters[k]
            ELSE k \notin DOMAIN interp.merged_filters

\* both gave a strength, each a different one, and the user's is kept
C17_Witness ==
    /\ pc = "merged"
    /\ "strength" \in SharedKeys
    /\ request.filters["strength"] # <<>>
    /\ interp.claude_filters["strength"] # <<>>
    /\ request.filters["strength"] # interp.claude_filters["strength"]
    /\ interp.merged_filters["strength"] = request.filters["strength"]

----------------------------------------------------------------------------
(* Strategy choice *)

\* the drug-like terms of a term list, as the specification defines them:
\* longer than 3 characters and no dosage-form word, unit or pure number
RECURSIVE DrugLikeTerms(_)
DrugLikeTerms(terms) ==
    IF terms = <<>> THEN <<>>
    ELSE IF /\ Len(Head(terms)) > 3
            /\ Lower(Head(terms)) \notin DOSAGE_FORM_TERMS
            /\ Lower(Head(terms)) \notin UNIT_TERMS
            /\ ~AllDigits(Head(terms))
    THEN <<Head(terms)>> \o DrugLikeTerms(Tail(terms))
    ELSE DrugLikeTerms(Tail(terms))

MultiPcs == {"multi_embed", "multi_expand", "multi_group"}

SinglePcs == {"single_embed", "hybrid_knn", "hybrid_drug_class", "hybrid_therapeutic",
              "hybrid_post_filter"}

\* C18 as stated: the handler is on the multi-concept strategy exactly when
\* the interpreted term list holds 3 or more drug-like terms (longer than 3
\* characters, no dosage-form word, unit or pure number), and on the
\* single-concept strategy with 2 or fewer.
C18_StrategyByDrugLikeTerms_Stated ==
    /\ pc \in MultiPcs => Len(DrugLikeTerms(interp.claude_terms)) >= 3
    /\ pc \in SinglePcs => Len(DrugLikeTerms(interp.claude_terms)) <= 2

----------------------------------------------------------------------------
(* Multi-concept strategy: one expansion after all the vector searches *)

DistinctNdcs(ds) == \A i, j \in 1..Len(ds) : ds[i].ndc = ds[j].ndc => i = j

ExpansionOps == {"drug_class", "therapeutic_class"}

CallsOf(op) == {i \in 1..Len(calls) : calls[i].op = op}

\* the combined vector results go through perform_drug_expansion once, after
\* the last term
C19_Step ==
    /\ pc' = "multi_expand" => (pc = "multi_embed" /\ term_i' = Len(interp.drug_terms))
    /\ pc = "multi_expand" => pc' = "multi_group"
    /\ pc = "multi_group" => pc' \notin MultiPcs

\* C19: on the multi-concept strategy no expansion query is issued before
\* every per-term vector search has finished, the combined list handed to the
\* expansion holds each NDC at most once, and the expansion runs once per
\* request, not once per term.
C19_OneExpansionAfterAllSearches ==
    /\ [](Len(interp.drug_terms) >= 3 =>
            /\ \A i, j \in 1..Len(calls) :
                  (i < j /\ calls[i].op \in ExpansionOps) => calls[j].op \notin {"embed", "knn"}
            /\ pc = "multi_embed" => \A i \in 1..Len(calls) : calls[i].op \notin ExpansionOps
            /\ pc = "multi_expand" =>
                  /\ term_i = Len(interp.drug_terms)
                  /\ DistinctNdcs(drugs)
                  /\ \A i \in 1..Len(calls) : calls[i].op \notin ExpansionOps
            /\ \A op \in ExpansionOps : Cardinality(CallsOf(op)) <= 1)
    /\ [][C19_Step]_vars

\* three vector searches answered, then both expansions ran on their
\* combined results
C19_Witness ==
    /\ pc = "multi_group"
    /\ Cardinality({i \in CallsOf("knn") : calls[i].ok}) = 3
    /\ \A op \in ExpansionOps : \E i \in CallsOf(op) : calls[i].ok
    /\ \E i \in 1..Len(drugs) : drugs[i].search_method = "therapeutic_class_filter"
    /\ Len(drugs) >= 3

----------------------------------------------------------------------------
(* Class expansion appends *)

ExpansionPcs == {"hybrid_drug_class", "hybrid_therapeutic", "multi_expand"}

ExpansionMethods == {"drug_class_filter", "therapeutic_class_filter"}

C20_Step ==
    pc \in ExpansionPcs =>
        /\ IsPrefix(drugs, drugs')
        /\ \A i \in (Len(drugs) + 1)..Len(drugs') : drugs'[i].search_method \in ExpansionMethods
        /\ DistinctNdcs(drugs) => DistinctNdcs(drugs')

\* C20: the output of class expansion, in redis_hybrid_search and in
\* perform_drug_expansion, is the original candidate list, unchanged and in
\* its original order, followed by the newly discovered candidates; when the
\* original list has distinct NDCs, no NDC occurs twice in the output.
C20_ExpansionAppendsOnly == [][C20_Step]_vars

\* the hybrid search's own candidates come first, then one of each expansion
C20_Witness ==
    /\ pc = "hybrid_post_filter"
    /\ Len(drugs) >= 3
    /\ drugs[1].search_method \notin ExpansionMethods
    /\ \E i, j \in 2..Len(drugs) :
          /\ i < j
          /\ drugs[i].search_method = "drug_class_filter"
          /\ drugs[j].search_method = "therapeutic_class_filter"
    /\ DistinctNdcs(drugs)

----------------------------------------------------------------------------
(* Similarity of a vector hit *)

Min2(a, b) == IF a < b THEN a ELSE b
Max2(a, b) == IF a > b THEN a ELSE b

\* position in the Catalog of the record a candidate was parsed from
CatalogIndex(d) == CHOOSE i \in 1..Len(Catalog) : Catalog[i].ndc = d.ndc

VectorCandidates == {i \in 1..Len(drugs) : drugs[i].search_method = "vector"}

\* the candidates a vector search adds have the clamped similarity of the
\* distances the store reported
C21_Step ==
    pc \in {"hybrid_knn", "multi_embed"} =>
        \E dist \in ScoreProfiles :
            \A i \in (Len(drugs) + 1)..Len(drugs') :
                LET distance == dist[CatalogIndex(drugs'[i])]
                IN distance # NoDistance =>
                      drugs'[i].similarity_score_pct = Max2(0, Min2(100, 100 - distance))

\* C21: for every distance the store returns for a vector hit, the
\* candidate's similarity is clamp(1 - distance, 0, 1), so its percentage
\* lies in [0, 100], also for a distance below 0 or above 1.
C21_SimilarityClamped ==
    /\ [](\A i \in VectorCandidates :
             drugs[i].similarity_score_pct = NoScore
             \/ drugs[i].similarity_score_pct \in 0..100)
    /\ [][C21_Step]_vars

\* a hit at distance 1.1 scored 0 and a hit at distance -0.1 scored 100
C21_Witness ==
    \E i, j \in VectorCandidates :
        /\ drugs[i].ndc = Catalog[1].ndc /\ drugs[i].similarity_score_pct = 0
        /\ drugs[j].ndc = Catalog[7].ndc /\ drugs[j].similarity_score_pct = 100

----------------------------------------------------------------------------
(* Classification of a group *)

\* the candidate of the input that created the group
FirstMember(g) ==
    prev_drugs[CHOOSE i \in 1..Len(prev_drugs) :
                  /\ group_key(prev_drugs[i]) = g.group_id
                  /\ \A j \in 1..(i - 1) : group_key(prev_drugs[j]) # g.group_id]

NameFieldsContain(d, term) ==
    \/ Contains(Lower(d.drug_name), Lower(term))
    \/ Contains(Lower(d.brand_name), Lower(term))
    \/ Contains(Lower(d.generic_name), Lower(term))

ContainsQueryTerm(d) ==
    \E t \in 1..Len(interp.exact_match_terms) : NameFieldsContain(d, interp.exact_match_terms[t])

MatchesRequestedNdc(d) ==
    requested_ndc_of(interp.merged_filters) # <<>>
    /\ d.ndc = requested_ndc_of(interp.merged_filters)

ProvenanceMatchType(d, vector_type) ==
    IF d.search_method = "vector" THEN vector_type
    ELSE IF d.search_method = "drug_class_filter" THEN "pharmacologic"
    ELSE "therapeutic_alternative"

\* C22 as stated: a group's match_type follows the provenance of its first
\* member: for vector provenance 'exact' if the name fields contain a query
\* term or the NDC is the requested one and 'alternative' otherwise, for
\* every query-term list; 'pharmacologic' for pharmacologic expansion;
\* 'therapeutic_alternative' for therapeutic expansion and filter-only.
C22_MatchTypeFromFirstMember_Stated ==
    pc = "grouped" =>
        \A g \in 1..Len(groups) :
            LET d == FirstMember(groups[g])
            IN groups[g].match_type =
                  ProvenanceMatchType(d, IF ContainsQueryTerm(d) \/ MatchesRequestedNdc(d)
                                         THEN "exact" ELSE "alternative")

\* C22, amended: as stated, except that with an empty query-term list every
\* vector-provenance first member is classified 'exact'.
C22_MatchTypeFromFirstMember ==
    pc = "grouped" =>
        \A g \in 1..Len(groups) :
            LET d == FirstMember(groups[g])
            IN groups[g].match_type =
                  ProvenanceMatchType(d, IF \/ ContainsQueryTerm(d)
                                            \/ MatchesRequestedNdc(d)
                                            \/ interp.exact_match_terms = <<>>
                                         THEN "exact" ELSE "alternative")

\* an exact, an alternative and a pharmacologic group in one output
C22_Witness ==
    /\ pc = "grouped"
    /\ interp.exact_match_terms # <<>>
    /\ \E a, b, c \in 1..Len(groups) :
          /\ groups[a].match_type = "exact" /\ FirstMember(groups[a]).search_method = "vector"
          /\ groups[b].match_type = "alternative"
          /\ groups[c].match_type = "pharmacologic"

----------------------------------------------------------------------------
(* Terms of the anchor detection *)

\* the candidates the vector searches returned
VectorResults == SelectSeq(drugs, LAMBDA d : d.search_method = "vector")

\* C23 as stated: the anchors of class expansion are detected with the
\* original user terms, the tokens of the raw query, never with the
\* collaborator-derived terms, on both strategies and whatever the
\* term-selection policy chose for the lexical gate.
C23_AnchorsFromOriginalTerms_Stated ==
    /\ pc = "hybrid_drug_class" =>
          classes_to_expand = anchor_classes(drugs, interp.original_terms)
    /\ (pc = "multi_group" /\ request.redis_password) =>
          classes_to_expand = anchor_classes(VectorResults, interp.original_terms)

----------------------------------------------------------------------------
(* Anchor detection on its own: any retrieved list, several term lists *)

AnchorCandidates == {Candidate(Catalog[i], "vector", 50) : i \in 1..Len(Catalog)}

\* no term, an empty term, terms in either case, a term no name contains
AnchorTermInputs ==
    {<<>>, <<<<>>>>, <<<<"C","R","E","S">>>>, <<<<"r","o","s","u">>>>, <<<<>>, <<"L","o","v","a">>>>, <<<<"z","z","z","z">>>>,
     <<<<"a","t","o","r">>, <<"m","e","n","t","h","o","l">>>>}

InitAnchor ==
    /\ pc = "anchoring"
    /\ drugs \in SeqsUpTo(AnchorCandidates, MaxDrugs)
    /\ \E terms \in AnchorTermInputs : interp = [NoInterp EXCEPT !.exact_match_terms = terms]
    /\ classes_to_expand = NoClasses
    /\ request = NoRequest
    /\ term_i = 0
    /\ strength_values = <<>>
    /\ prev_drugs = <<>>
    /\ groups = <<>>
    /\ calls = <<>>
    /\ response = NoResponse

\* lines 798-815 and 1245-1261: collect the classes of the anchors
AnchorCall ==
    /\ pc = "anchoring"
    /\ pc' = "anchored"
    /\ classes_to_expand' = anchor_classes(drugs, interp.exact_match_terms)
    /\ UNCHANGED <<request, interp, term_i, strength_values, drugs, prev_drugs, groups,
                   calls, response>>

NextAnchor == AnchorCall

SpecAnchor == InitAnchor /\ [][NextAnchor]_vars

\* drug name, brand name and generic name in one lower-case text
NamesText(d) ==
    Lower(d.drug_name) \o <<" ">> \o Lower(d.brand_name) \o <<" ">> \o Lower(d.generic_name)

\* the candidates whose names contain a non-empty term, whatever its case
Anchors ==
    {i \in 1..Len(drugs) :
        \E t \in 1..Len(interp.exact_match_terms) :
            /\ interp.exact_match_terms[t] # <<>>
            /\ Contains(NamesText(drugs[i]), Lower(interp.exact_match_terms[t]))}

\* C24: a retrieved candidate contributes its pharmacologic and therapeutic
\* class to the sets to expand if and only if its drug name, brand name and
\* generic name together contain, in any case, a non-empty term of the
\* exact-match terms; the sets are exactly the non-empty classes of those
\* anchors, and a non-anchor adds none.
C24_ClassesOfAnchorsOnly ==
    pc = "anchored" =>
        /\ classes_to_expand.drug_class =
              {Strip(drugs[i].drug_class) : i \in Anchors} \ {<<>>}
        /\ classes_to_expand.therapeutic_class =
              {Strip(drugs[i].therapeutic_class) : i \in Anchors} \ {<<>>}

\* an anchor found by an upper-case term gave its classes, a retrieved
\* non-anchor of another class gave none
C24_Witness ==
    /\ pc = "anchored"
    /\ interp.exact_match_terms = <<<<"C","R","E","S">>>>
    /\ Anchors # {}
    /\ \E j \in 1..Len(drugs) :
          /\ j \notin Anchors
          /\ drugs[j].drug_class # <<>>
          /\ Strip(drugs[j].drug_class) \notin classes_to_expand.drug_class
    /\ classes_to_expand.drug_class # {}

----------------------------------------------------------------------------
(* The term-selection policy on its own: any query with any interpretation *)

PolicyQueries == {<<"c","r","e","s">>, <<"r","o","s","u"," ","2","0">>, <<" ","r","o","s","u"," ","2","0"," ">>,
                  <<"a","t","o","r"," ","r","o","s","u"," ","m","e","n","t","h","o","l">>}

\* JSON objects with or without search_text, search_terms and corrections,
\* and two answers that are not JSON
PolicyAnswers ==
    {JsonObject(<<"{","}">>, search_text, search_terms, NoFilters, corrections) :
        search_text \in {<<>>, <<"c","r","e","s">>, <<"r","o","s","u"," ","2","0">>},
        search_terms \in {<<>>, <<<<"c","r","e","s">>>>, <<<<"r","o","s","u">>, <<"l","o","v","a">>, <<"s","i","m","v">>, <<"a","t","o","r">>>>},
        corrections \in {<<>>, <<<<"c","r","s","e"," ","-",">"," ","c","r","e","s">>>>}}
    \cup {RawContent("not_json", <<" ","r","o","s","u"," ","2","0"," ">>), RawContent("not_json", <<"l","o","v","a">>)}

InitPolicy ==
    /\ pc = "selecting"
    /\ \E query \in PolicyQueries : request = [NoRequest EXCEPT !.query = query]
    /\ \E out \in PolicyAnswers : calls = <<ClaudeCall(out)>>
    /\ interp = NoInterp
    /\ term_i = 0
    /\ strength_values = <<>>
    /\ classes_to_expand = NoClasses
    /\ drugs = <<>>
    /\ prev_drugs = <<>>
    /\ groups = <<>>
    /\ response = NoResponse

\* lines 76-120 of lambda_handler
SelectCall ==
    /\ pc = "selecting"
    /\ pc' = "selected"
    /\ interp' = interpret(request.query, request.filters, calls[1].answer,
                           calls[1].answer.content)
    /\ UNCHANGED <<request, term_i, strength_values, classes_to_expand, drugs, prev_drugs,
                   groups, calls, response>>

NextPolicy == SelectCall

SpecPolicy == InitPolicy /\ [][NextPolicy]_vars

NaiveTerms == extract_search_terms(request.query)

\* C25: the term-selection policy picks the collaborator terms when
\* corrections exist and the collaborator terms are at most 2 more than the
\* original terms; otherwise the collaborator terms when they are not empty
\* and the expanded query differs from the raw query; in every other case
\* the naive tokens of the raw query.
C25_TermSelectionPolicy ==
    pc = "selected" =>
        \/ /\ interp.corrections # <<>>
           /\ Len(interp.claude_terms) <= Len(NaiveTerms) + 2
           /\ interp.exact_match_terms = interp.claude_terms
        \/ /\ ~(interp.corrections # <<>> /\ Len(interp.claude_terms) <= Len(NaiveTerms) + 2)
           /\ interp.claude_terms # <<>>
           /\ interp.expanded_query # request.query
           /\ interp.exact_match_terms = interp.claude_terms
        \/ /\ ~(interp.corrections # <<>> /\ Len(interp.claude_terms) <= Len(NaiveTerms) + 2)
           /\ ~(interp.claude_terms # <<>> /\ interp.expanded_query # request.query)
           /\ interp.exact_match_terms = NaiveTerms

\* corrections exist, but the collaborator gave 4 terms for a query of 1 and
\* left the query text as it was: the naive tokens are picked
C25_Witness ==
    /\ pc = "selected"
    /\ interp.corrections # <<>>
    /\ Len(interp.claude_terms) > Len(NaiveTerms) + 2
    /\ interp.expanded_query = request.query
    /\ interp.exact_match_terms = NaiveTerms
    /\ interp.exact_match_terms # interp.claude_terms

----------------------------------------------------------------------------
(* Provenance and score of a candidate *)

ProvenanceTags == {"vector", "drug_class_filter", "therapeutic_class_filter"}

TaggedAndScoredByProvenance(ds) ==
    \A i \in 1..Len(ds) :
        /\ ds[i].search_method \in ProvenanceTags
        /\ ds[i].similarity_score_pct # NoScore => ds[i].search_method = "vector"

\* C26: after retrieval every candidate carries one provenance tag, and only
\* a vector candidate can have a similarity score: every candidate added by
\* the pharmacologic or the therapeutic expansion has none.
C26_ScoreOnlyForVector ==
    /\ TaggedAndScoredByProvenance(drugs)
    /\ TaggedAndScoredByProvenance(response.raw_results)

\* a scored vector candidate next to candidates of both expansions
C26_Witness ==
    /\ \E i \in VectorCandidates : drugs[i].similarity_score_pct # NoScore
    /\ \E i \in 1..Len(drugs) :
          drugs[i].search_method = "drug_class_filter" /\ drugs[i].similarity_score_pct = NoScore
    /\ \E i \in 1..Len(drugs) :
          /\ drugs[i].search_method = "therapeutic_class_filter"
          /\ drugs[i].similarity_score_pct = NoScore

----------------------------------------------------------------------------
(* Best similarity of a group *)

\* the scores of the scored members of a group
MemberScores(g) ==
    {prev_drugs[i].similarity_score_pct :
        i \in {j \in 1..Len(prev_drugs) :
                  /\ group_key(prev_drugs[j]) = g.group_id
                  /\ prev_drugs[j].similarity_score_pct # NoScore}}

OnlyVectorScored(ds) ==
    \A i \in 1..Len(ds) : ds[i].similarity_score_pct # NoScore => ds[i].search_method = "vector"

\* C27: when only vector candidates carry scores, the best_similarity of
\* every group is the greatest score of its scored members, and is missing
\* exactly when no member is scored, in whatever order the members arrive.
C27_BestSimilarityIsMax ==
    (pc = "grouped" /\ OnlyVectorScored(prev_drugs)) =>
        \A g \in 1..Len(groups) :
            IF MemberScores(groups[g]) = {}
            THEN groups[g].best_similarity = NoScore
            ELSE /\ groups[g].best_similarity \in MemberScores(groups[g])
                 /\ \A s \in MemberScores(groups[g]) : s <= groups[g].best_similarity

\* a group opened by an unscored expansion candidate, joined by two scored
\* vector candidates, the lower score first
C27_Witness ==
    /\ pc = "grouped"
    /\ Len(prev_drugs) = 3
    /\ prev_drugs[1].similarity_score_pct = NoScore
    /\ prev_drugs[1].search_method = "drug_class_filter"
    /\ prev_drugs[2].similarity_score_pct = 40
    /\ prev_drugs[3].similarity_score_pct = 90
    /\ Len(groups) = 1
    /\ groups[1].best_similarity = 90

----------------------------------------------------------------------------
(* Order inside a classification tier *)

\* C28: among the groups of one classification tier in the output of
\* group_search_results, best_similarity never increases down the list, and
\* every group without a best_similarity comes after every group of the tier
\* that has one.
C28_OrderWithinTier ==
    pc = "grouped" =>
        \A i, j \in 1..Len(groups) :
            (i < j /\ groups[i].match_type = groups[j].match_type
                   /\ groups[j].best_similarity # NoScore)
            => /\ groups[i].best_similarity # NoScore
               /\ groups[i].best_similarity >= groups[j].best_similarity

\* three groups of one tier that arrived unscored first, then 40, then 90
C28_Witness ==
    /\ pc = "grouped"
    /\ Len(groups) = 3
    /\ groups[1].match_type = groups[2].match_type
    /\ groups[2].match_type = groups[3].match_type
    /\ groups[1].best_similarity = 90
    /\ groups[2].best_similarity = 40
    /\ groups[3].best_similarity = NoScore
    /\ prev_drugs[1].similarity_score_pct = NoScore
    /\ prev_drugs[2].similarity_score_pct = 40

----------------------------------------------------------------------------
(* Pharmacologic expansion before therapeutic expansion *)

OkCallsOf(op) == {i \in CallsOf(op) : calls[i].ok}

\* the records an expansion query of the request returned
ReturnedByDrugClassQuery ==
    {x \in 1..Len(Catalog) :
        /\ FilterGate(Catalog[x], build_filter_clause(interp.merged_filters))
        /\ \E i \in OkCallsOf("drug_class") :
              \E c \in calls[i].classes : Upper(Strip(Catalog[x].drug_class)) = Upper(c)}

ReturnedByTherapeuticQuery ==
    {x \in 1..Len(Catalog) :
        /\ FilterGate(Catalog[x], build_filter_clause(interp.merged_filters))
        /\ \E i \in OkCallsOf("therapeutic_class") :
              Catalog[x].therapeutic_class \in calls[i].classes}

InVectorResults(x) == \E i \in VectorCandidates : drugs[i].ndc = Catalog[x].ndc

PositionsOf(x) == {i \in 1..Len(drugs) : drugs[i].ndc = Catalog[x].ndc}

\* C29: the pharmacologic expansion query always comes before the
\* therapeutic one, so a record that is not among the vector results and
\* that both expansion queries return is in the expanded list once, as a
\* pharmacologic-expansion candidate, never as a therapeutic one.
C29_PharmacologicBeforeTherapeutic ==
    /\ \A i, j \in 1..Len(calls) :
          (calls[i].op = "therapeutic_class" /\ calls[j].op = "drug_class") => j < i
    /\ pc \in {"hybrid_post_filter", "multi_group"} =>
          \A x \in ReturnedByDrugClassQuery \cap ReturnedByTherapeuticQuery :
              ~InVectorResults(x) =>
                  /\ Cardinality(PositionsOf(x)) = 1
                  /\ \A i \in PositionsOf(x) : drugs[i].search_method = "drug_class_filter"

\* both queries ran and returned a record the vector searches had not found
C29_Witness ==
    /\ pc \in {"hybrid_post_filter", "multi_group"}
    /\ \E x \in ReturnedByDrugClassQuery \cap ReturnedByTherapeuticQuery :
          /\ ~InVectorResults(x)
          /\ \E i \in PositionsOf(x) : drugs[i].search_method = "drug_class_filter"

----------------------------------------------------------------------------
(* The requested number as a complete numeric value *)

\* the number stands at index i of the name and is no fragment of a longer
\* number: no digit before it, no integer part and decimal point before it,
\* no digit after it
CompleteNumberAt(name, i, number) ==
    /\ LitAt(name, i, number)
    /\ ~(i > 1 /\ IsDigit(name[i - 1]))
    /\ ~(i > 2 /\ name[i - 1] = "." /\ IsDigit(name[i - 2]))
    /\ ~(i + Len(number) <= Len(name) /\ IsDigit(name[i + Len(number)]))

\* C30 as stated: the strength post-filter retains a candidate only when the
\* requested number occurs in its name as a complete numeric value, never as
\* a fragment of a longer number, be the extra characters leading digits
\* (2.5 inside 112.5) or an integer part and a decimal point (5 inside 2.5).
C30_CompleteNumberOnly_Stated ==
    (pc = "strength_filtered" /\ Len(strength_values) = 1) =>
        \A j \in 1..Len(drugs) :
            \E i \in 1..Len(drugs[j].drug_name) :
                CompleteNumberAt(drugs[j].drug_name, i, strength_values[1].number)

====
